---- MODULE Spec2Model ----
(***************************************************************************)
(* Order workflow of order-system-service: OrderService.createOrder,       *)
(* cancelOrder and updateOrderStatus and the ProductService calls over a   *)
(* relational store (transactions with READ COMMITTED visibility and row   *)
(* write locks), the Redis lock/cache keys they use, and the RabbitMQ      *)
(* publisher of config/rabbitmq.ts.                                        *)
(***************************************************************************)
EXTENDS Integers, Sequences, FiniteSets, TLC

\* ---------------------------------------------------------------- bounds
NumCreate   == 2    \* concurrent createOrder requests
NumCancel   == 2    \* concurrent cancelOrder requests
NumProducts == 1    \* rows of the products table
InitStock   == 2    \* seeded stock of every product
MaxQty      == 2    \* largest quantity of an item
MaxItems    == 2    \* longest items list of a request
MaxConns    == 3    \* broker connections ever opened
MaxFails    == 6    \* failed attempts of one reconnect run
NumGet      == 2    \* concurrent getProductById calls
NumUpdate   == 2    \* concurrent updateProduct calls
NumDelete   == 1    \* concurrent deleteProduct calls
NumStatus   == 2    \* concurrent updateOrderStatus calls
NumPrices   == 2    \* distinct prices a product can be given
NumInit     == 1    \* calls of initRabbitMQ besides the reconnect runs

\* ------------------------------------------------------------- constants
Products   == 1 .. NumProducts        \* ids of the products rows
MissingId  == 0                       \* a product id with no row
ProductIds == Products \cup {MissingId}
Creates    == 1 .. NumCreate          \* createOrder calls; the call's order id
Cancels    == (NumCreate + 1) .. (NumCreate + NumCancel)
Txs        == Creates \cup Cancels    \* every call owns one query runner
Price(p)   == p + 1                   \* seeded price of product p
Gets       == (NumCreate + NumCancel + 1) .. (NumCreate + NumCancel + NumGet)
Updates    == (NumCreate + NumCancel + NumGet + 1) ..
                (NumCreate + NumCancel + NumGet + NumUpdate)
Deletes    == (NumCreate + NumCancel + NumGet + NumUpdate + 1) ..
                (NumCreate + NumCancel + NumGet + NumUpdate + NumDelete)
Statuses   == (NumCreate + NumCancel + NumGet + NumUpdate + NumDelete + 1) ..
                (NumCreate + NumCancel + NumGet + NumUpdate + NumDelete + NumStatus)
Writers    == Txs \cup Updates \cup Deletes  \* calls that write products rows
Calls      == Writers \cup Gets \cup Statuses
Prices     == 2 .. (NumPrices + 1)     \* the values of Product.price
InitCalls  == 1 .. NumInit

NoRow   == [stock |-> -1, reservedStock |-> -1, price |-> -1]
NoOrder == [status |-> "NONE", totalPrice |-> 0]
Conns   == 1 .. MaxConns
NoRun   == [pc |-> "idle", delay |-> 0, conn |-> 0, fails |-> 0]

VARIABLES
  db,          \* committed products rows
  orders,      \* committed orders rows, by order id
  orderItems,  \* committed order_items rows, by order id
  eventLogs,   \* committed event_logs rows, by order id
  locks,       \* Redis stock_lock:{productId} keys: 0 absent, else the token
  cache,       \* Redis product:{productId} keys
  pc,          \* position of every call
  items,       \* data.items consumed so far by a createOrder call
  product,     \* local `product` of a call
  totalPrice,  \* local `totalPrice` of a createOrder call
  err,         \* the error thrown in a call, "" if none
  wset,        \* uncommitted products rows written by a call's transaction
  txItems,     \* uncommitted order_items rows of a createOrder call
  target,      \* orderId argument of a cancelOrder call
  k,           \* index into order.items of a cancelOrder call
  published,   \* order.created messages handed to the broker, per order id
  pub,         \* a call's publishToExchange: "", "nochannel", "error", "sent",
               \* "full" (publish returned false), "drained"
  ch,          \* local `ch` of a call's publishToExchange
  channel,     \* rabbitmq.ts module variable `channel` (0 is null)
  connection,  \* rabbitmq.ts module variable `connection` (0 is null)
  connecting,  \* rabbitmq.ts module variable `connecting`
  alive,       \* broker connections that are open
  handlers,    \* connections with the 'close' handler registered
  opened,      \* number of connections amqplib.connect has opened
  rc,          \* the reconnect run started by the close of a connection
  databaseEntity, \* the row a call's save() loaded to compute what changed
  message,     \* message of the Error a createOrder call threw
  referenceNo, \* Order.referenceNo of a createOrder call's order, 0 if none
  productId,   \* productId argument of a ProductService call
  storeReads,  \* products rows read from the store by a getProductById call
  cacheWrites, \* product:{id} keys written by a getProductById call
  newStatus,   \* newStatus argument of an updateOrderStatus call
  isTransactionActive, \* queryRunner.isTransactionActive of a call's runner
  payloads,    \* payload column of the event_logs rows, by order id
  oldStatus,   \* local `oldStatus` of an updateOrderStatus call
  initCall,    \* a call of the exported initRabbitMQ: its position and `conn`
  shutdown     \* position of the shutdownRabbitMQ call

vars == <<db, orders, orderItems, eventLogs, locks, cache, pc, items, product,
          totalPrice, err, wset, txItems, target, k, published,
          pub, ch, channel, connection, connecting, alive, handlers,
          opened, rc, databaseEntity, message, referenceNo, productId,
          storeReads, cacheWrites, newStatus, isTransactionActive, payloads,
          oldStatus, initCall, shutdown>>

storeVars == <<db, orders, orderItems, eventLogs>>
mqVars    == <<channel, connection, connecting, alive, handlers, opened, rc,
               initCall, shutdown>>
svcVars   == <<productId, storeReads, cacheWrites, newStatus>>
runnerVars == <<isTransactionActive>>
logVars    == <<payloads, oldStatus>>

\* ----------------------------------------------------------- the store
\* The row a SELECT of call t returns: inside a transaction its own
\* uncommitted write, else the committed row.
Visible(t, p) ==
  IF p \notin Products THEN NoRow
  ELSE IF t \in Txs /\ wset[t][p] # NoRow THEN wset[t][p] ELSE db[p]

\* An uncommitted UPDATE of another transaction holds the row's write lock.
RowLocked(t, p) == \E u \in Txs \ {t} : wset[u][p] # NoRow

NoWrites == [p \in Products |-> NoRow]

\* save(entity) of the ORM first loads the row of the entity's id and then
\* writes the columns in which the entity differs from the loaded row.
ChangedColumns(entity, loaded) ==
  {c \in {"stock", "reservedStock", "price"} : entity[c] # loaded[c]}

\* Call t's save() has a statement to run: an INSERT when no row was loaded,
\* an UPDATE when a column changed.
HasStatement(t) ==
  \/ databaseEntity[t] = NoRow
  \/ ChangedColumns(product[t], databaseEntity[t]) # {}

\* The row of product p after the statement of call t's save(): the inserted
\* entity, or the current row with the changed columns set (an UPDATE of a
\* row that is gone changes nothing).
SavedRow(t, p) ==
  LET cols == ChangedColumns(product[t], databaseEntity[t])
      base == Visible(t, p)
      e    == product[t]
  IN  IF databaseEntity[t] = NoRow THEN e
      ELSE IF base = NoRow THEN NoRow
      ELSE [stock         |-> IF "stock" \in cols THEN e.stock ELSE base.stock,
            reservedStock |-> IF "reservedStock" \in cols
                              THEN e.reservedStock ELSE base.reservedStock,
            price         |-> IF "price" \in cols THEN e.price ELSE base.price]

\* The value of a product:{id} key: JSON.stringify of the entity, and the
\* absent key.
NoEntry == << >>
Stringify(row) == <<row.stock, row.reservedStock, row.price>>
Parse(json) == [stock |-> json[1], reservedStock |-> json[2], price |-> json[3]]

Init ==
  /\ db = [p \in Products |->
             [stock |-> InitStock, reservedStock |-> 0, price |-> Price(p)]]
  /\ orders = [o \in Creates |-> NoOrder]
  /\ orderItems = [o \in Creates |-> << >>]
  /\ eventLogs = [o \in Creates |-> << >>]
  /\ locks = [p \in ProductIds |-> 0]
  /\ cache = [p \in ProductIds |-> NoEntry]
  /\ pc = [t \in Calls |-> "idle"]
  /\ items = [r \in Creates |-> << >>]
  /\ product = [t \in Calls |-> NoRow]
  /\ totalPrice = [r \in Creates |-> 0]
  /\ err = [t \in Calls |-> ""]
  /\ wset = [t \in Txs |-> NoWrites]
  /\ txItems = [r \in Creates |-> << >>]
  /\ target = [c \in Cancels \cup Statuses |-> 0]
  /\ k = [c \in Cancels |-> 0]
  /\ published = [o \in Creates |-> 0]
  /\ pub = [r \in Creates |-> ""]
  /\ ch = [r \in Creates |-> 0]
  /\ channel = 1
  /\ connection = 1
  /\ connecting = FALSE
  /\ alive = {1}
  /\ handlers = {1}
  /\ opened = 1
  /\ rc = [c \in Conns |-> NoRun]
  /\ databaseEntity = [t \in Calls |-> NoRow]
  /\ message = [r \in Creates |-> << >>]
  /\ referenceNo = [r \in Creates |-> 0]
  /\ productId = [t \in Gets \cup Updates \cup Deletes |-> 0]
  /\ storeReads = [g \in Gets |-> 0]
  /\ cacheWrites = [g \in Gets |-> 0]
  /\ newStatus = [u \in Statuses |-> ""]
  /\ isTransactionActive = [t \in Txs |-> FALSE]
  /\ payloads = [o \in Creates |-> << >>]
  /\ oldStatus = [u \in Statuses |-> ""]
  /\ initCall = [i \in InitCalls |-> [pc |-> "idle", conn |-> 0]]
  /\ shutdown = "idle"

\* ------------------------------------------------- OrderService.createOrder
CurItem(r) == items[r][Len(items[r])]

\* The messages of the errors createOrder throws, as sequences of pieces of
\* text cut so that every occurrence of a piece the controller searches for
\* ('not found', 'Insufficient stock', 'lock') is made of whole pieces.
Name(p) == <<"Product", " ", ToString(p)>>
UserNotFoundMessage == <<"User", " ", "not", " ", "found">>
LockMessage(p) ==
  <<"Cannot", " ", "acquire", " ", "lock", " ", "for", " ", "product", " ",
    ToString(p), ".", " ", "Please", " ", "try", " ", "again", ".">>
ProductNotFoundMessage(p) ==
  <<"Product", " ", "not", " ", "found", ":", " ", ToString(p)>>
InsufficientStockMessage(p, available, requested) ==
  <<"Insufficient", " ", "stock", " ", "for", " ">> \o Name(p) \o
  <<".", " ", "Available", ":", " ", ToString(available), ",", " ",
    "Requested", ":", " ", ToString(requested)>>
\* Messages of the store driver's errors: a deadlock victim, a lost
\* connection, a violated unique constraint.
DeadlockMessage == <<"dead", "lock", " ", "detected">>
ConnectionMessage == <<"Connection", " ", "terminated", " ", "unexpectedly">>
DuplicateKeyMessage ==
  <<"duplicate", " ", "key", " ", "value", " ", "violates", " ", "unique",
    " ", "constraint">>
StoreMessages == {DeadlockMessage, ConnectionMessage}

\* lines 25-34: the query runner's transaction starts and the user is looked
\* up; a missing user throws 'User not found'
FindUser(r) ==
  /\ pc[r] = "idle"
  /\ isTransactionActive' = [isTransactionActive EXCEPT ![r] = TRUE]
  /\ \E found \in BOOLEAN :
       IF found
       THEN /\ pc' = [pc EXCEPT ![r] = "loop"]
            /\ err' = err
       ELSE /\ pc' = [pc EXCEPT ![r] = "rollback"]
            /\ err' = [err EXCEPT ![r] = "UserNotFound"]
  /\ message' = [message EXCEPT ![r] =
                   IF pc'[r] = "rollback" THEN UserNotFoundMessage ELSE @]
  /\ UNCHANGED <<storeVars, locks, cache, items, product, totalPrice,
                 wset, txItems, target, k, published, pub, ch, mqVars,
                 databaseEntity, referenceNo, svcVars, logVars>>

\* AcquireLock with the refusal thrown inside the inner try, so that the
\* finally deletes the lock key of the holder.
AcquireLock_RefusedInTry(r) ==
  /\ pc[r] = "loop"
  /\ Len(items[r]) < MaxItems
  /\ \E p \in ProductIds, q \in 1 .. MaxQty :
       /\ items' = [items EXCEPT ![r] = Append(@, [productId |-> p, quantity |-> q])]
       /\ IF locks[p] = 0
          THEN /\ locks' = [locks EXCEPT ![p] = r]
               /\ pc' = [pc EXCEPT ![r] = "find"]
               /\ err' = err
          ELSE /\ locks' = locks
               /\ pc' = [pc EXCEPT ![r] = "release"]
               /\ err' = [err EXCEPT ![r] = "LockConflict"]
       /\ message' = [message EXCEPT ![r] =
                        IF locks[p] = 0 THEN @ ELSE LockMessage(p)]
  /\ UNCHANGED <<storeVars, cache, product, totalPrice, wset, txItems,
                 target, k, published, pub, ch, mqVars,
                 databaseEntity, referenceNo, svcVars, runnerVars, logVars>>

\* lines 40-52: the next item of data.items and SET lockKey NX EX 30; a
\* refused set throws outside the inner try, so its finally does not run
AcquireLock(r) ==
  /\ pc[r] = "loop"
  /\ Len(items[r]) < MaxItems
  /\ \E p \in ProductIds, q \in 1 .. MaxQty :
       /\ items' = [items EXCEPT ![r] = Append(@, [productId |-> p, quantity |-> q])]
       /\ IF locks[p] = 0
          THEN /\ locks' = [locks EXCEPT ![p] = r]
               /\ pc' = [pc EXCEPT ![r] = "find"]
               /\ err' = err
          ELSE /\ locks' = locks
               /\ pc' = [pc EXCEPT ![r] = "rollback"]
               /\ err' = [err EXCEPT ![r] = "LockConflict"]
       /\ message' = [message EXCEPT ![r] =
                        IF locks[p] = 0 THEN @ ELSE LockMessage(p)]
  /\ UNCHANGED <<storeVars, cache, product, totalPrice, wset, txItems,
                 target, k, published, pub, ch, mqVars,
                 databaseEntity, referenceNo, svcVars, runnerVars, logVars>>

\* FindProduct without the stock check of lines 64-68.
FindProduct_NoStockCheck(r) ==
  /\ pc[r] = "find"
  /\ LET p   == CurItem(r).productId
         q   == CurItem(r).quantity
         row == Visible(r, p)
     IN  IF row = NoRow
         THEN /\ product' = [product EXCEPT ![r] = row]
              /\ err' = [err EXCEPT ![r] = "ProductNotFound"]
              /\ message' = [message EXCEPT ![r] = ProductNotFoundMessage(p)]
              /\ pc' = [pc EXCEPT ![r] = "release"]
         ELSE /\ product' = [product EXCEPT ![r] =
                   [row EXCEPT !.stock = @ - q, !.reservedStock = @ + q]]
              /\ err' = err
              /\ message' = message
              /\ pc' = [pc EXCEPT ![r] = "save"]
  /\ UNCHANGED <<storeVars, locks, cache, items, totalPrice, wset, txItems,
                 target, k, published, pub, ch, mqVars,
                 databaseEntity, referenceNo, svcVars, runnerVars, logVars>>

\* lines 56-72: the read inside the transaction, the two checks and the
\* in-memory reservation (all synchronous after the read resolves)
FindProduct(r) ==
  /\ pc[r] = "find"
  /\ LET p   == CurItem(r).productId
         q   == CurItem(r).quantity
         row == Visible(r, p)
     IN  IF row = NoRow
         THEN /\ product' = [product EXCEPT ![r] = row]
              /\ err' = [err EXCEPT ![r] = "ProductNotFound"]
              /\ message' = [message EXCEPT ![r] = ProductNotFoundMessage(p)]
              /\ pc' = [pc EXCEPT ![r] = "release"]
         ELSE IF row.stock < q
         THEN /\ product' = [product EXCEPT ![r] = row]
              /\ err' = [err EXCEPT ![r] = "InsufficientStock"]
              /\ message' = [message EXCEPT ![r] =
                               InsufficientStockMessage(p, row.stock, q)]
              /\ pc' = [pc EXCEPT ![r] = "release"]
         ELSE /\ product' = [product EXCEPT ![r] =
                   [row EXCEPT !.stock = @ - q, !.reservedStock = @ + q]]
              /\ err' = err
              /\ message' = message
              /\ pc' = [pc EXCEPT ![r] = "save"]
  /\ UNCHANGED <<storeVars, locks, cache, items, totalPrice, wset, txItems,
                 target, k, published, pub, ch, mqVars,
                 databaseEntity, referenceNo, svcVars, runnerVars, logVars>>

\* line 73, first half of save(product): the ORM loads the row of the
\* entity's id inside the transaction
LoadProduct(r) ==
  /\ pc[r] = "save"
  /\ databaseEntity' = [databaseEntity EXCEPT ![r] =
                          Visible(r, CurItem(r).productId)]
  /\ pc' = [pc EXCEPT ![r] = "update"]
  /\ UNCHANGED <<storeVars, locks, cache, items, product, totalPrice, err,
                 wset, txItems, target, k, published, pub, ch, mqVars,
                 message, referenceNo, svcVars, runnerVars, logVars>>

\* SaveProduct through a repository outside the transaction: the row is
\* committed at once.
SaveProduct_Autocommit(r) ==
  /\ pc[r] = "update"
  /\ LET p == CurItem(r).productId
         q == CurItem(r).quantity
     IN  /\ IF HasStatement(r)
            THEN /\ ~RowLocked(r, p)
                 /\ db' = [db EXCEPT ![p] = SavedRow(r, p)]
            ELSE db' = db
         /\ totalPrice' = [totalPrice EXCEPT ![r] = @ + product[r].price * q]
  /\ databaseEntity' = [databaseEntity EXCEPT ![r] = NoRow]
  /\ pc' = [pc EXCEPT ![r] = "cacheDel"]
  /\ UNCHANGED <<orders, orderItems, eventLogs, locks, cache, items, product,
                 err, wset, txItems, target, k, published, pub, ch, mqVars,
                 message, referenceNo, svcVars, runnerVars, logVars>>

\* lines 73-76, second half of save(product): the UPDATE of the changed
\* columns inside the transaction (it waits for the row's write lock; no
\* statement when nothing changed), then totalPrice
SaveProduct(r) ==
  /\ pc[r] = "update"
  /\ LET p == CurItem(r).productId
         q == CurItem(r).quantity
     IN  /\ IF HasStatement(r)
            THEN /\ ~RowLocked(r, p)
                 /\ wset' = [wset EXCEPT ![r][p] = SavedRow(r, p)]
            ELSE wset' = wset
         /\ totalPrice' = [totalPrice EXCEPT ![r] = @ + product[r].price * q]
  /\ databaseEntity' = [databaseEntity EXCEPT ![r] = NoRow]
  /\ pc' = [pc EXCEPT ![r] = "cacheDel"]
  /\ UNCHANGED <<storeVars, locks, cache, items, product, err, txItems,
                 target, k, published, pub, ch, mqVars,
                 message, referenceNo, svcVars, runnerVars, logVars>>

\* lines 79-80: DEL product:{productId}
InvalidateCache(r) ==
  /\ pc[r] = "cacheDel"
  /\ cache' = [cache EXCEPT ![CurItem(r).productId] = NoEntry]
  /\ pc' = [pc EXCEPT ![r] = "release"]
  /\ UNCHANGED <<storeVars, locks, items, product, totalPrice, err, wset,
                 txItems, target, k, published, pub, ch, mqVars,
                 databaseEntity, message, referenceNo, svcVars, runnerVars, logVars>>

\* The finally block of lines 81-84 without the DEL: the key stays until it
\* expires.
ReleaseLock_Keep(r) ==
  /\ pc[r] = "release"
  /\ locks' = locks
  /\ product' = [product EXCEPT ![r] = NoRow]
  /\ pc' = [pc EXCEPT ![r] = IF err[r] = "" THEN "loop" ELSE "rollback"]
  /\ UNCHANGED <<storeVars, cache, items, totalPrice, err, wset,
                 txItems, target, k, published, pub, ch, mqVars,
                 databaseEntity, message, referenceNo, svcVars, runnerVars, logVars>>

\* lines 81-84: finally DEL lockKey, whoever holds the key now; a pending
\* error then propagates to the outer catch
ReleaseLock(r) ==
  /\ pc[r] = "release"
  /\ locks' = [locks EXCEPT ![CurItem(r).productId] = 0]
  /\ product' = [product EXCEPT ![r] = NoRow]
  /\ pc' = [pc EXCEPT ![r] = IF err[r] = "" THEN "loop" ELSE "rollback"]
  /\ UNCHANGED <<storeVars, cache, items, totalPrice, err, wset,
                 txItems, target, k, published, pub, ch, mqVars,
                 databaseEntity, message, referenceNo, svcVars, runnerVars, logVars>>

\* lines 102-113: the OrderItem of one requested item; the product is read
\* again inside the transaction for unitPrice
OrderItemOf(r, it) ==
  LET row == Visible(r, it.productId)
  IN  [productId |-> it.productId, quantity |-> it.quantity,
       unitPrice |-> row.price, totalPrice |-> row.price * it.quantity]

\* line 88: the referenceNo values a call can draw. Date.now() and eight
\* hex digits of a uuid either give a value no other order has (named by the
\* call's own id) or repeat the value of another call's order.
ReferenceNos(r) ==
  {r} \cup {referenceNo[o] : o \in {c \in Creates \ {r} : referenceNo[c] # 0}}

\* Another call's orders row with this referenceNo: committed, or inserted
\* by a transaction that is still open.
RefCommitted(r, ref) ==
  \E o \in Creates \ {r} : referenceNo[o] = ref /\ orders[o] # NoOrder
RefPending(r, ref) ==
  \E o \in Creates \ {r} : referenceNo[o] = ref /\ orders[o] = NoOrder

\* SaveOrder with the event published before the commit.
SaveOrder_PublishFirst(r) ==
  /\ pc[r] = "loop"
  /\ Len(items[r]) >= 1
  /\ \E ref \in ReferenceNos(r) :
       /\ ~RefPending(r, ref)
       /\ IF RefCommitted(r, ref)
          THEN /\ err' = [err EXCEPT ![r] = "Internal"]
               /\ message' = [message EXCEPT ![r] = DuplicateKeyMessage]
               /\ pc' = [pc EXCEPT ![r] = "rollback"]
               /\ UNCHANGED <<txItems, referenceNo, published>>
          ELSE /\ referenceNo' = [referenceNo EXCEPT ![r] = ref]
               /\ txItems' = [txItems EXCEPT ![r] =
                    [i \in 1 .. Len(items[r]) |-> OrderItemOf(r, items[r][i])]]
               /\ published' = [published EXCEPT ![r] = @ + 1]
               /\ pc' = [pc EXCEPT ![r] = "commit"]
               /\ UNCHANGED <<err, message>>
  /\ UNCHANGED <<storeVars, locks, cache, items, product, totalPrice,
                 wset, pub, ch, target, k, mqVars, databaseEntity, svcVars, runnerVars, logVars>>

\* SaveOrder on an orders table without the unique index on referenceNo.
SaveOrder_NoUniqueIndex(r) ==
  /\ pc[r] = "loop"
  /\ Len(items[r]) >= 1
  /\ \E ref \in ReferenceNos(r) :
       /\ referenceNo' = [referenceNo EXCEPT ![r] = ref]
       /\ txItems' = [txItems EXCEPT ![r] =
            [i \in 1 .. Len(items[r]) |-> OrderItemOf(r, items[r][i])]]
       /\ pc' = [pc EXCEPT ![r] = "commit"]
       /\ UNCHANGED <<err, message>>
  /\ UNCHANGED <<storeVars, locks, cache, items, product, totalPrice,
                 wset, published, pub, ch, target, k, mqVars,
                 databaseEntity, svcVars, runnerVars, logVars>>

\* lines 88-126: the Order (status PENDING, a drawn referenceNo), one
\* OrderItem per requested item and the ORDER_CREATED EventLog are saved in
\* the transaction; none is visible outside it before the commit. The
\* INSERT of the order waits while an open transaction holds the same
\* referenceNo in the unique index, and fails when a committed order has it.
SaveOrder(r) ==
  /\ pc[r] = "loop"
  /\ Len(items[r]) >= 1
  /\ \E ref \in ReferenceNos(r) :
       /\ ~RefPending(r, ref)
       /\ IF RefCommitted(r, ref)
          THEN /\ err' = [err EXCEPT ![r] = "Internal"]
               /\ message' = [message EXCEPT ![r] = DuplicateKeyMessage]
               /\ pc' = [pc EXCEPT ![r] = "rollback"]
               /\ UNCHANGED <<txItems, referenceNo>>
          ELSE /\ referenceNo' = [referenceNo EXCEPT ![r] = ref]
               /\ txItems' = [txItems EXCEPT ![r] =
                    [i \in 1 .. Len(items[r]) |-> OrderItemOf(r, items[r][i])]]
               /\ pc' = [pc EXCEPT ![r] = "commit"]
               /\ UNCHANGED <<err, message>>
  /\ UNCHANGED <<storeVars, locks, cache, items, product, totalPrice,
                 wset, published, pub, ch, target, k, mqVars,
                 databaseEntity, svcVars, runnerVars, logVars>>

\* The products rows after transaction t commits its writes.
Committed(t) ==
  [p \in Products |-> IF wset[t][p] # NoRow THEN wset[t][p] ELSE db[p]]

\* CommitTransaction with a getChannel that returns the null channel instead
\* of throwing: the publish goes on without a channel.
CommitTransaction_NullChannel(r) ==
  /\ pc[r] = "commit"
  /\ isTransactionActive' = [isTransactionActive EXCEPT ![r] = FALSE]
  /\ db' = [p \in Products |-> IF wset[r][p] # NoRow THEN wset[r][p] ELSE db[p]]
  /\ orders' = [orders EXCEPT ![r] =
                  [status |-> "PENDING", totalPrice |-> totalPrice[r]]]
  /\ orderItems' = [orderItems EXCEPT ![r] = txItems[r]]
  /\ eventLogs' = [eventLogs EXCEPT ![r] = <<"ORDER_CREATED">>]
  /\ payloads' = [payloads EXCEPT ![r] =
                     <<[items |-> items[r], totalPrice |-> totalPrice[r]]>>]
  /\ wset' = [wset EXCEPT ![r] = NoWrites]
  /\ txItems' = [txItems EXCEPT ![r] = << >>]
  /\ totalPrice' = [totalPrice EXCEPT ![r] = 0]
  /\ pub' = [pub EXCEPT ![r] = IF channel = 0 THEN "nochannel" ELSE @]
  /\ pc' = [pc EXCEPT ![r] = "assert"]
  /\ ch' = [ch EXCEPT ![r] = channel]
  /\ UNCHANGED <<locks, cache, items, product, err, target, k,
                 published, mqVars,
                 databaseEntity, message, referenceNo, svcVars, oldStatus>>

\* lines 129-135 with rabbitmq.ts lines 73-76, 112-113: commitTransaction;
\* then publishToExchange is entered: getChannel throws when the module's
\* channel is null, and the catch of createOrder (lines 144-149) logs it and
\* returns the saved order; else assertExchange is awaited on that channel
CommitTransaction(r) ==
  /\ pc[r] = "commit"
  /\ isTransactionActive' = [isTransactionActive EXCEPT ![r] = FALSE]
  /\ db' = Committed(r)
  /\ orders' = [orders EXCEPT ![r] =
                  [status |-> "PENDING", totalPrice |-> totalPrice[r]]]
  /\ orderItems' = [orderItems EXCEPT ![r] = txItems[r]]
  /\ eventLogs' = [eventLogs EXCEPT ![r] = <<"ORDER_CREATED">>]
  /\ payloads' = [payloads EXCEPT ![r] =
                     <<[items |-> items[r], totalPrice |-> totalPrice[r]]>>]
  /\ wset' = [wset EXCEPT ![r] = NoWrites]
  /\ txItems' = [txItems EXCEPT ![r] = << >>]
  /\ totalPrice' = [totalPrice EXCEPT ![r] = 0]
  /\ IF channel = 0
     THEN /\ pub' = [pub EXCEPT ![r] = "nochannel"]
          /\ pc' = [pc EXCEPT ![r] = "returned"]
          /\ ch' = ch
     ELSE /\ pub' = pub
          /\ pc' = [pc EXCEPT ![r] = "assert"]
          /\ ch' = [ch EXCEPT ![r] = channel]
  /\ UNCHANGED <<locks, cache, items, product, err, target, k,
                 published, mqVars,
                 databaseEntity, message, referenceNo, svcVars, oldStatus>>

\* StoreError whose rejection inside the item step skips the finally of
\* lines 81-84.
StoreError_PastFinally(r) ==
  /\ pc[r] \in {"find", "save", "update", "commit"}
       \/ (pc[r] = "loop" /\ Len(items[r]) >= 1)
  /\ pc' = [pc EXCEPT ![r] = "rollback"]
  /\ err' = [err EXCEPT ![r] = "Internal"]
  /\ \E m \in StoreMessages : message' = [message EXCEPT ![r] = m]
  /\ databaseEntity' = [databaseEntity EXCEPT ![r] = NoRow]
  /\ UNCHANGED <<storeVars, locks, cache, items, product, totalPrice, wset,
                 txItems, target, k, published, pub, ch, mqVars,
                 referenceNo, svcVars, runnerVars, logVars>>

\* A store operation of the transaction rejects with one of the driver's
\* messages: inside the inner try (lines 54-81) the finally still runs,
\* elsewhere the outer catch is next.
StoreError(r) ==
  /\ \/ /\ pc[r] \in {"find", "save", "update"}
        /\ pc' = [pc EXCEPT ![r] = "release"]
     \/ /\ pc[r] = "loop" /\ Len(items[r]) >= 1
        /\ pc' = [pc EXCEPT ![r] = "rollback"]
     \/ /\ pc[r] = "commit"
        /\ pc' = [pc EXCEPT ![r] = "rollback"]
  /\ err' = [err EXCEPT ![r] = "Internal"]
  /\ \E m \in StoreMessages : message' = [message EXCEPT ![r] = m]
  /\ databaseEntity' = [databaseEntity EXCEPT ![r] = NoRow]
  /\ UNCHANGED <<storeVars, locks, cache, items, product, totalPrice, wset,
                 txItems, target, k, published, pub, ch, mqVars,
                 referenceNo, svcVars, runnerVars, logVars>>

\* lines 150-156: rollbackTransaction, the query runner is released and the
\* error is rethrown
RollbackTransaction(r) ==
  /\ pc[r] = "rollback"
  /\ isTransactionActive' = [isTransactionActive EXCEPT ![r] = FALSE]
  /\ wset' = [wset EXCEPT ![r] = NoWrites]
  /\ txItems' = [txItems EXCEPT ![r] = << >>]
  /\ referenceNo' = [referenceNo EXCEPT ![r] = 0]
  /\ totalPrice' = [totalPrice EXCEPT ![r] = 0]
  /\ pc' = [pc EXCEPT ![r] = "thrown"]
  /\ UNCHANGED <<storeVars, locks, cache, items, product, err,
                 target, k, published, pub, ch, mqVars,
                 databaseEntity, message, svcVars, logVars>>

\* The 30 s expiry of a stock_lock key (EX 30) elapses.
LockExpire(p) ==
  /\ locks[p] # 0
  /\ locks' = [locks EXCEPT ![p] = 0]
  /\ UNCHANGED <<storeVars, cache, pc, items, product, totalPrice, err, wset,
                 txItems, target, k, published, pub, ch, mqVars,
                 databaseEntity, message, referenceNo, svcVars, runnerVars, logVars>>

\* AssertExchange without the try/catch of createOrder lines 134-147: the
\* rejection reaches the outer catch.
AssertExchange_Propagate(r) ==
  /\ pc[r] = "assert"
  /\ IF ch[r] \in alive
     THEN /\ published' = [published EXCEPT ![r] = @ + 1]
          /\ err' = err
          /\ \E ok \in BOOLEAN :
               IF ok
               THEN /\ pub' = [pub EXCEPT ![r] = "sent"]
                    /\ pc' = [pc EXCEPT ![r] = "returned"]
               ELSE /\ pub' = [pub EXCEPT ![r] = "full"]
                    /\ pc' = [pc EXCEPT ![r] = "drain"]
     ELSE /\ published' = published
          /\ pub' = [pub EXCEPT ![r] = "error"]
          /\ err' = [err EXCEPT ![r] = "Internal"]
          /\ pc' = [pc EXCEPT ![r] = "rollback"]
  /\ UNCHANGED <<storeVars, locks, cache, items, product, totalPrice,
                 wset, txItems, target, k, ch, mqVars,
                 databaseEntity, message, referenceNo, svcVars, runnerVars, logVars>>

\* AssertExchange that returns at once also when ch.publish returned false.
AssertExchange_NoWait(r) ==
  /\ pc[r] = "assert"
  /\ IF ch[r] \in alive
     THEN /\ published' = [published EXCEPT ![r] = @ + 1]
          /\ \E ok \in BOOLEAN :
               pub' = [pub EXCEPT ![r] = IF ok THEN "sent" ELSE "full"]
     ELSE /\ published' = published
          /\ pub' = [pub EXCEPT ![r] = "error"]
  /\ pc' = [pc EXCEPT ![r] = "returned"]
  /\ UNCHANGED <<storeVars, locks, cache, items, product, totalPrice, err,
                 wset, txItems, target, k, ch, mqVars,
                 databaseEntity, message, referenceNo, svcVars, runnerVars, logVars>>

\* rabbitmq.ts lines 113-121: assertExchange resolves, ch.publish hands the
\* message to the channel and tells whether its buffer has room; on a closed
\* channel the call rejects and createOrder swallows the error
AssertExchange(r) ==
  /\ pc[r] = "assert"
  /\ IF ch[r] \in alive
     THEN /\ published' = [published EXCEPT ![r] = @ + 1]
          /\ \E ok \in BOOLEAN :
               IF ok
               THEN /\ pub' = [pub EXCEPT ![r] = "sent"]
                    /\ pc' = [pc EXCEPT ![r] = "returned"]
               ELSE /\ pub' = [pub EXCEPT ![r] = "full"]
                    /\ pc' = [pc EXCEPT ![r] = "drain"]
     ELSE /\ published' = published
          /\ pub' = [pub EXCEPT ![r] = "error"]
          /\ pc' = [pc EXCEPT ![r] = "returned"]
  /\ UNCHANGED <<storeVars, locks, cache, items, product, totalPrice, err,
                 wset, txItems, target, k, ch, mqVars,
                 databaseEntity, message, referenceNo, svcVars, runnerVars, logVars>>

\* rabbitmq.ts lines 119-121: the 'drain' event of the channel resolves the
\* wait; a closed channel emits none
Drain(r) ==
  /\ pc[r] = "drain"
  /\ ch[r] \in alive
  /\ pub' = [pub EXCEPT ![r] = "drained"]
  /\ pc' = [pc EXCEPT ![r] = "returned"]
  /\ UNCHANGED <<storeVars, locks, cache, items, product, totalPrice, err,
                 wset, txItems, target, k, published, ch, mqVars,
                 databaseEntity, message, referenceNo, svcVars, runnerVars, logVars>>

CreateOrder(r) ==
  \/ FindUser(r) \/ AcquireLock(r) \/ FindProduct(r)
  \/ LoadProduct(r) \/ SaveProduct(r) \/ InvalidateCache(r) \/ ReleaseLock(r) \/ SaveOrder(r)
  \/ CommitTransaction(r) \/ StoreError(r) \/ RollbackTransaction(r)
  \/ AssertExchange(r) \/ Drain(r)

\* --------------------------------------------- OrderController.createOrder
\* String.includes on a message: needle occurs as consecutive pieces.
Includes(msg, needle) ==
  \E i \in 1 .. (Len(msg) - Len(needle) + 1) :
    SubSeq(msg, i, i + Len(needle) - 1) = needle

\* OrderController lines 41-50: the HTTP status chosen from the message of
\* the error createOrder threw
ErrorStatus(msg) ==
  IF Includes(msg, <<"not", " ", "found">>)
       \/ Includes(msg, <<"Insufficient", " ", "stock">>)
  THEN 400
  ELSE IF Includes(msg, <<"lock">>) THEN 409
  ELSE 500

\* ------------------------------------------------- OrderService.cancelOrder
\* The item of the loaded order that the restore loop is at.
CancelItem(c) == orderItems[target[c]][k[c]]

\* CancelFindOrder without the status check of lines 264-266.
CancelFindOrder_NoStatusCheck(c) ==
  /\ pc[c] = "idle"
  /\ isTransactionActive' = [isTransactionActive EXCEPT ![c] = TRUE]
  /\ \E o \in Creates :
       /\ target' = [target EXCEPT ![c] = o]
       /\ IF orders[o] = NoOrder
          THEN /\ pc' = [pc EXCEPT ![c] = "null"]
               /\ UNCHANGED <<err, k>>
          ELSE /\ pc' = [pc EXCEPT ![c] = "find"]
               /\ err' = err
               /\ k' = [k EXCEPT ![c] = 1]
  /\ UNCHANGED <<storeVars, locks, cache, items, product, totalPrice, wset,
                 txItems, published, pub, ch, mqVars,
                 databaseEntity, message, referenceNo, svcVars, logVars>>

\* lines 250-266: the transaction starts and the order is loaded with its
\* items; a missing order returns null (the finally only releases the query
\* runner), a CANCELLED one throws 'Order already cancelled'
CancelFindOrder(c) ==
  /\ pc[c] = "idle"
  /\ isTransactionActive' = [isTransactionActive EXCEPT ![c] = TRUE]
  /\ \E o \in Creates :
       /\ target' = [target EXCEPT ![c] = o]
       /\ IF orders[o] = NoOrder
          THEN /\ pc' = [pc EXCEPT ![c] = "null"]
               /\ UNCHANGED <<err, k>>
          ELSE IF orders[o].status = "CANCELLED"
          THEN /\ pc' = [pc EXCEPT ![c] = "rollback"]
               /\ err' = [err EXCEPT ![c] = "AlreadyCancelled"]
               /\ k' = k
          ELSE /\ pc' = [pc EXCEPT ![c] = "find"]
               /\ err' = err
               /\ k' = [k EXCEPT ![c] = 1]
  /\ UNCHANGED <<storeVars, locks, cache, items, product, totalPrice, wset,
                 txItems, published, pub, ch, mqVars,
                 databaseEntity, message, referenceNo, svcVars, logVars>>

\* The restore loop moves to the next item, or leaves the loop.
CancelNext(c) == IF k[c] < Len(orderItems[target[c]]) THEN "find" ELSE "commit"

\* RestoreFind that first takes the product's stock_lock key with SET NX and
\* fails when the key exists.
RestoreFind_WithLock(c) ==
  /\ pc[c] = "find"
  /\ LET p   == CancelItem(c).productId
         row == Visible(c, p)
         q   == CancelItem(c).quantity
     IN  IF locks[p] # 0
         THEN /\ err' = [err EXCEPT ![c] = "LockConflict"]
              /\ pc' = [pc EXCEPT ![c] = "rollback"]
              /\ UNCHANGED <<locks, product, k>>
         ELSE /\ locks' = [locks EXCEPT ![p] = c]
              /\ err' = err
              /\ IF row = NoRow
                 THEN /\ product' = product
                      /\ k' = [k EXCEPT ![c] = @ + 1]
                      /\ pc' = [pc EXCEPT ![c] = CancelNext(c)]
                 ELSE /\ product' = [product EXCEPT ![c] =
                           [row EXCEPT !.stock = @ + q, !.reservedStock = @ - q]]
                      /\ k' = k
                      /\ pc' = [pc EXCEPT ![c] = "save"]
  /\ UNCHANGED <<storeVars, cache, items, totalPrice, wset,
                 txItems, target, published, pub, ch, mqVars,
                 databaseEntity, message, referenceNo, svcVars, runnerVars, logVars>>

\* RestoreFind that gives the units back to stock but leaves reservedStock.
RestoreFind_NoUnreserve(c) ==
  /\ pc[c] = "find"
  /\ LET row == Visible(c, CancelItem(c).productId)
         q   == CancelItem(c).quantity
     IN  IF row = NoRow
         THEN /\ product' = product
              /\ k' = [k EXCEPT ![c] = @ + 1]
              /\ pc' = [pc EXCEPT ![c] = CancelNext(c)]
         ELSE /\ product' = [product EXCEPT ![c] = [row EXCEPT !.stock = @ + q]]
              /\ k' = k
              /\ pc' = [pc EXCEPT ![c] = "save"]
  /\ UNCHANGED <<storeVars, locks, cache, items, totalPrice, err, wset,
                 txItems, target, published, pub, ch, mqVars,
                 databaseEntity, message, referenceNo, svcVars, runnerVars, logVars>>

\* lines 270-276: the product of the item is read inside the transaction and
\* the quantity is given back in memory; a missing product is skipped
RestoreFind(c) ==
  /\ pc[c] = "find"
  /\ LET row == Visible(c, CancelItem(c).productId)
         q   == CancelItem(c).quantity
     IN  IF row = NoRow
         THEN /\ product' = product
              /\ k' = [k EXCEPT ![c] = @ + 1]
              /\ pc' = [pc EXCEPT ![c] = CancelNext(c)]
         ELSE /\ product' = [product EXCEPT ![c] =
                   [row EXCEPT !.stock = @ + q, !.reservedStock = @ - q]]
              /\ k' = k
              /\ pc' = [pc EXCEPT ![c] = "save"]
  /\ UNCHANGED <<storeVars, locks, cache, items, totalPrice, err, wset,
                 txItems, target, published, pub, ch, mqVars,
                 databaseEntity, message, referenceNo, svcVars, runnerVars, logVars>>

\* line 277, first half of save(product): the ORM loads the row of the
\* entity's id inside the transaction
RestoreLoad(c) ==
  /\ pc[c] = "save"
  /\ databaseEntity' = [databaseEntity EXCEPT ![c] =
                          Visible(c, CancelItem(c).productId)]
  /\ pc' = [pc EXCEPT ![c] = "update"]
  /\ UNCHANGED <<storeVars, locks, cache, items, product, totalPrice, err,
                 wset, txItems, target, k, published, pub, ch, mqVars,
                 message, referenceNo, svcVars, runnerVars, logVars>>

\* RestoreSave through a repository outside the transaction: the row is
\* committed at once.
RestoreSave_Autocommit(c) ==
  /\ pc[c] = "update"
  /\ LET p == CancelItem(c).productId
     IN  IF HasStatement(c)
         THEN /\ ~RowLocked(c, p)
              /\ db' = [db EXCEPT ![p] = SavedRow(c, p)]
         ELSE db' = db
  /\ databaseEntity' = [databaseEntity EXCEPT ![c] = NoRow]
  /\ pc' = [pc EXCEPT ![c] = "cacheDel"]
  /\ UNCHANGED <<orders, orderItems, eventLogs, locks, cache, items, product,
                 totalPrice, err, wset, txItems, target, k, published, pub, ch,
                 mqVars, message, referenceNo, svcVars, runnerVars, logVars>>

\* line 277, second half of save(product): the UPDATE of the changed columns
\* inside the transaction (it waits for the row's write lock); no stock_lock
\* key is involved
RestoreSave(c) ==
  /\ pc[c] = "update"
  /\ LET p == CancelItem(c).productId
     IN  IF HasStatement(c)
         THEN /\ ~RowLocked(c, p)
              /\ wset' = [wset EXCEPT ![c][p] = SavedRow(c, p)]
         ELSE wset' = wset
  /\ databaseEntity' = [databaseEntity EXCEPT ![c] = NoRow]
  /\ pc' = [pc EXCEPT ![c] = "cacheDel"]
  /\ UNCHANGED <<storeVars, locks, cache, items, product, totalPrice, err,
                 txItems, target, k, published, pub, ch, mqVars,
                 message, referenceNo, svcVars, runnerVars, logVars>>

\* lines 280-281: DEL product:{productId}
RestoreInvalidate(c) ==
  /\ pc[c] = "cacheDel"
  /\ cache' = [cache EXCEPT ![CancelItem(c).productId] = NoEntry]
  /\ product' = [product EXCEPT ![c] = NoRow]
  /\ k' = [k EXCEPT ![c] = @ + 1]
  /\ pc' = [pc EXCEPT ![c] = CancelNext(c)]
  /\ UNCHANGED <<storeVars, locks, items, totalPrice, err, wset,
                 txItems, target, published, pub, ch, mqVars,
                 databaseEntity, message, referenceNo, svcVars, runnerVars, logVars>>

\* CancelCommit that saves no ORDER_CANCELLED EventLog.
CancelCommit_NoEventLog(c) ==
  /\ pc[c] = "commit"
  /\ isTransactionActive' = [isTransactionActive EXCEPT ![c] = FALSE]
  /\ db' = Committed(c)
  /\ orders' = [orders EXCEPT ![target[c]].status = "CANCELLED"]
  /\ wset' = [wset EXCEPT ![c] = NoWrites]
  /\ pc' = [pc EXCEPT ![c] = "returned"]
  /\ UNCHANGED <<orderItems, eventLogs, locks, cache, items, product,
                 totalPrice, err, txItems, target, k, published, pub, ch,
                 mqVars, databaseEntity, message, referenceNo, svcVars, logVars>>

\* lines 285-298: status CANCELLED and the ORDER_CANCELLED EventLog are saved
\* in the transaction, and commitTransaction
CancelCommit(c) ==
  /\ pc[c] = "commit"
  /\ isTransactionActive' = [isTransactionActive EXCEPT ![c] = FALSE]
  /\ db' = Committed(c)
  /\ orders' = [orders EXCEPT ![target[c]].status = "CANCELLED"]
  /\ eventLogs' = [eventLogs EXCEPT ![target[c]] = Append(@, "ORDER_CANCELLED")]
  /\ payloads' = [payloads EXCEPT ![target[c]] =
                     Append(@, [cancelledAt |-> "now"])]
  /\ wset' = [wset EXCEPT ![c] = NoWrites]
  /\ pc' = [pc EXCEPT ![c] = "returned"]
  /\ UNCHANGED <<orderItems, locks, cache, items, product, totalPrice, err,
                 txItems, target, k, published, pub, ch, mqVars,
                 databaseEntity, message, referenceNo, svcVars, oldStatus>>

\* A store operation of the cancellation rejects.
CancelStoreError(c) ==
  /\ pc[c] \in {"find", "save", "update", "commit"}
  /\ err' = [err EXCEPT ![c] = "Internal"]
  /\ pc' = [pc EXCEPT ![c] = "rollback"]
  /\ UNCHANGED <<storeVars, locks, cache, items, product, totalPrice, wset,
                 txItems, target, k, published, pub, ch, mqVars,
                 databaseEntity, message, referenceNo, svcVars, runnerVars, logVars>>

\* lines 303-309: rollbackTransaction, release, rethrow
CancelRollback(c) ==
  /\ pc[c] = "rollback"
  /\ isTransactionActive' = [isTransactionActive EXCEPT ![c] = FALSE]
  /\ wset' = [wset EXCEPT ![c] = NoWrites]
  /\ product' = [product EXCEPT ![c] = NoRow]
  /\ databaseEntity' = [databaseEntity EXCEPT ![c] = NoRow]
  /\ pc' = [pc EXCEPT ![c] = "thrown"]
  /\ UNCHANGED <<storeVars, locks, cache, items, totalPrice, err,
                 txItems, target, k, published, pub, ch, mqVars,
                 message, referenceNo, svcVars, logVars>>

CancelOrder(c) ==
  \/ CancelFindOrder(c) \/ RestoreFind(c) \/ RestoreLoad(c) \/ RestoreSave(c)
  \/ RestoreInvalidate(c) \/ CancelCommit(c)
  \/ CancelStoreError(c) \/ CancelRollback(c)

\* Two createOrder calls and one cancelOrder call, and the expiry of locks.
Next ==
  \/ \E r \in Creates : CreateOrder(r)
  \/ CancelOrder(NumCreate + 1)
  \/ \E p \in ProductIds : LockExpire(p)

Spec == Init /\ [][Next]_vars

\* ------------------------------------------------------ config/rabbitmq.ts
\* line 57 and line 58
InitialDelay == 1000
MaxDelay     == 10000

Min(a, b) == IF a < b THEN a ELSE b

\* initRabbitMQ lines 13-26, the synchronous part of a call made from
\* reconnect while the module has no connection or no channel: with
\* `connecting` set the call waits 250 ms, else it sets the flag and awaits
\* amqplib.connect
InitEnterPc == IF connecting THEN "wait250" ELSE "connect"

\* lines 34-37 with reconnect lines 53-62: a broker connection closes; its
\* 'close' handler, if registered, starts a reconnect run which clears the
\* module's connection and channel and enters initRabbitMQ
ConnectionClose(c) ==
  /\ c \in alive
  /\ alive' = alive \ {c}
  /\ IF c \in handlers
     THEN /\ connection' = 0
          /\ channel' = 0
          /\ rc' = [rc EXCEPT ![c] = [pc |-> InitEnterPc, delay |-> InitialDelay,
                                      conn |-> 0, fails |-> 0]]
          /\ connecting' = TRUE
     ELSE UNCHANGED <<connection, channel, rc, connecting>>
  /\ UNCHANGED <<initCall, shutdown, databaseEntity, message, referenceNo, svcVars, runnerVars, logVars,
                 storeVars, locks, cache, pc, items, product, totalPrice, err,
                 wset, txItems, target, k, published, pub, ch, handlers, opened>>

\* initRabbitMQ lines 15-26: the 250 ms wait is over; the call returns the
\* module's connection if there is one now, else it goes on to connect
AfterWait(c) ==
  /\ rc[c].pc = "wait250"
  /\ IF channel # 0 /\ connection # 0
     THEN /\ rc' = [rc EXCEPT ![c].pc = "done"]
          /\ connecting' = connecting
     ELSE /\ rc' = [rc EXCEPT ![c].pc = "connect"]
          /\ connecting' = TRUE
  /\ UNCHANGED <<initCall, shutdown, databaseEntity, message, referenceNo, svcVars, runnerVars, logVars,
                 storeVars, locks, cache, pc, items, product, totalPrice, err,
                 wset, txItems, target, k, published, pub, ch, channel,
                 connection, alive, handlers, opened>>

\* initRabbitMQ line 26 (and 44-49, reconnect 65-67 on failure):
\* amqplib.connect resolves with a new connection or rejects; a rejection
\* clears `connecting` and reconnect sleeps for `delay`. rc[c].fails counts
\* the attempts of the run that failed.
Connect(c) ==
  /\ rc[c].pc = "connect"
  /\ \/ /\ opened < MaxConns
        /\ opened' = opened + 1
        /\ alive' = alive \cup {opened + 1}
        /\ rc' = [rc EXCEPT ![c].pc = "createChannel", ![c].conn = opened + 1]
        /\ connecting' = connecting
     \/ /\ rc[c].fails < MaxFails
        /\ rc' = [rc EXCEPT ![c].pc = "sleep", ![c].fails = @ + 1]
        /\ connecting' = FALSE
        /\ UNCHANGED <<opened, alive>>
  /\ UNCHANGED <<initCall, shutdown, databaseEntity, message, referenceNo, svcVars, runnerVars, logVars,
                 storeVars, locks, cache, pc, items, product, totalPrice, err,
                 wset, txItems, target, k, published, pub, ch, channel,
                 connection, handlers>>

\* initRabbitMQ lines 27-31: createChannel resolves and the module variables
\* are set, or it rejects because the new connection is closed already
CreateChannel(c) ==
  /\ rc[c].pc = "createChannel"
  /\ IF rc[c].conn \in alive
     THEN /\ connection' = rc[c].conn
          /\ channel' = rc[c].conn
          /\ rc' = [rc EXCEPT ![c].pc = "prefetch"]
          /\ connecting' = connecting
     ELSE /\ rc' = [rc EXCEPT ![c].pc = "sleep", ![c].conn = 0,
                              ![c].fails = @ + 1]
          /\ connecting' = FALSE
          /\ UNCHANGED <<connection, channel>>
  /\ UNCHANGED <<initCall, shutdown, databaseEntity, message, referenceNo, svcVars, runnerVars, logVars,
                 storeVars, locks, cache, pc, items, product, totalPrice, err,
                 wset, txItems, target, k, published, pub, ch, alive,
                 handlers, opened>>

\* initRabbitMQ lines 31-49 and reconnect lines 63-64: prefetch resolves, the
\* handlers are registered and the run ends; or prefetch rejects
Prefetch(c) ==
  /\ rc[c].pc = "prefetch"
  /\ IF rc[c].conn \in alive
     THEN /\ handlers' = handlers \cup {rc[c].conn}
          /\ rc' = [rc EXCEPT ![c].pc = "done", ![c].conn = 0]
     ELSE /\ handlers' = handlers
          /\ rc' = [rc EXCEPT ![c].pc = "sleep", ![c].conn = 0,
                              ![c].fails = @ + 1]
  /\ connecting' = FALSE
  /\ UNCHANGED <<initCall, shutdown, databaseEntity, message, referenceNo, svcVars, runnerVars, logVars,
                 storeVars, locks, cache, pc, items, product, totalPrice, err,
                 wset, txItems, target, k, published, pub, ch, channel,
                 connection, alive, opened>>

\* Wake with a delay that doubles without the cap of maxDelay.
Wake_Uncapped(c) ==
  /\ rc[c].pc = "sleep"
  /\ IF connection # 0 /\ channel # 0
     THEN /\ rc' = [rc EXCEPT ![c].pc = "done", ![c].delay = @ * 2]
          /\ connecting' = connecting
     ELSE /\ rc' = [rc EXCEPT ![c].pc = InitEnterPc, ![c].delay = @ * 2]
          /\ connecting' = TRUE
  /\ UNCHANGED <<initCall, shutdown, databaseEntity, message, referenceNo, svcVars, runnerVars, logVars,
                 storeVars, locks, cache, pc, items, product, totalPrice, err,
                 wset, txItems, target, k, published, pub, ch, channel,
                 connection, alive, handlers, opened>>

\* reconnect lines 67-68 and 60-62: the sleep is over, the delay doubles up
\* to maxDelay, and the loop either ends (the module has a connection and a
\* channel) or enters initRabbitMQ again
Wake(c) ==
  /\ rc[c].pc = "sleep"
  /\ IF connection # 0 /\ channel # 0
     THEN /\ rc' = [rc EXCEPT ![c].pc = "done",
                              ![c].delay = Min(@ * 2, MaxDelay)]
          /\ connecting' = connecting
     ELSE /\ rc' = [rc EXCEPT ![c].pc = InitEnterPc,
                              ![c].delay = Min(@ * 2, MaxDelay)]
          /\ connecting' = TRUE
  /\ UNCHANGED <<initCall, shutdown, databaseEntity, message, referenceNo, svcVars, runnerVars, logVars,
                 storeVars, locks, cache, pc, items, product, totalPrice, err,
                 wset, txItems, target, k, published, pub, ch, channel,
                 connection, alive, handlers, opened>>

Publisher ==
  \E c \in Conns :
    \/ ConnectionClose(c) \/ Connect(c)
    \/ CreateChannel(c) \/ Prefetch(c) \/ Wake(c)

\* One createOrder call next to the publisher's connection handling.
NextMQ == CreateOrder(1) \/ Publisher

SpecMQ == Init /\ [][NextMQ]_vars

\* SpecMQ with the steps of the createOrder call taken whenever they stay
\* possible: the store answers, and an open channel with a full buffer
\* drains in the end. Nothing is assumed of the broker connection.
SpecMQLive == SpecMQ /\ WF_vars(CreateOrder(1))

\* ------------------------------------------ initRabbitMQ as a call
\* A call of the exported initRabbitMQ made by a caller other than
\* reconnect (index.ts line 54 is such a call): a failure is thrown to the
\* caller instead of being retried.
InitFrame ==
  UNCHANGED <<shutdown, rc, databaseEntity, message, referenceNo, svcVars,
              runnerVars, logVars, storeVars, locks, cache, pc, items,
              product, totalPrice, err, wset, txItems, target, k, published,
              pub, ch>>

\* lines 13-23: the module's connection and channel are returned if both
\* exist; with `connecting` set the call waits 250 ms; else it sets the flag
\* and awaits amqplib.connect
InitEnter(i) ==
  /\ initCall[i].pc = "idle"
  /\ IF channel # 0 /\ connection # 0
     THEN /\ initCall' = [initCall EXCEPT ![i].pc = "returned"]
          /\ connecting' = connecting
     ELSE /\ initCall' = [initCall EXCEPT ![i].pc = InitEnterPc]
          /\ connecting' = TRUE
  /\ UNCHANGED <<channel, connection, alive, handlers, opened>>
  /\ InitFrame

\* lines 15-23: the 250 ms wait is over; the call returns the module's
\* connection if there is one now, else it sets the flag and connects
InitAfterWait(i) ==
  /\ initCall[i].pc = "wait250"
  /\ IF channel # 0 /\ connection # 0
     THEN /\ initCall' = [initCall EXCEPT ![i].pc = "returned"]
          /\ connecting' = connecting
     ELSE /\ initCall' = [initCall EXCEPT ![i].pc = "connect"]
          /\ connecting' = TRUE
  /\ UNCHANGED <<channel, connection, alive, handlers, opened>>
  /\ InitFrame

\* line 26 (and 44-49): amqplib.connect resolves with a new connection, or
\* rejects and the call throws after clearing `connecting`
InitConnect(i) ==
  /\ initCall[i].pc = "connect"
  /\ \/ /\ opened < MaxConns
        /\ opened' = opened + 1
        /\ alive' = alive \cup {opened + 1}
        /\ initCall' = [initCall EXCEPT ![i].pc = "createChannel",
                                        ![i].conn = opened + 1]
        /\ connecting' = connecting
     \/ /\ initCall' = [initCall EXCEPT ![i].pc = "thrown"]
        /\ connecting' = FALSE
        /\ UNCHANGED <<opened, alive>>
  /\ UNCHANGED <<channel, connection, handlers>>
  /\ InitFrame

\* lines 27-29: createChannel resolves and the module variables are set, or
\* it rejects because the new connection is closed already
InitCreateChannel(i) ==
  /\ initCall[i].pc = "createChannel"
  /\ IF initCall[i].conn \in alive
     THEN /\ connection' = initCall[i].conn
          /\ channel' = initCall[i].conn
          /\ initCall' = [initCall EXCEPT ![i].pc = "prefetch"]
          /\ connecting' = connecting
     ELSE /\ initCall' = [initCall EXCEPT ![i].pc = "thrown", ![i].conn = 0]
          /\ connecting' = FALSE
          /\ UNCHANGED <<connection, channel>>
  /\ UNCHANGED <<alive, handlers, opened>>
  /\ InitFrame

\* lines 31-49: prefetch resolves, the handlers are registered and the call
\* returns; or prefetch rejects and the call throws
InitPrefetch(i) ==
  /\ initCall[i].pc = "prefetch"
  /\ IF initCall[i].conn \in alive
     THEN /\ handlers' = handlers \cup {initCall[i].conn}
          /\ initCall' = [initCall EXCEPT ![i].pc = "returned", ![i].conn = 0]
     ELSE /\ handlers' = handlers
          /\ initCall' = [initCall EXCEPT ![i].pc = "thrown", ![i].conn = 0]
  /\ connecting' = FALSE
  /\ UNCHANGED <<channel, connection, alive, opened>>
  /\ InitFrame

InitRabbitMQ(i) ==
  \/ InitEnter(i) \/ InitAfterWait(i) \/ InitConnect(i)
  \/ InitCreateChannel(i) \/ InitPrefetch(i)

\* A call of initRabbitMQ next to the connection handling of the module;
\* a reconnect run may now find `connecting` set by the call and wait.
NextInit ==
  \/ Publisher
  \/ \E c \in Conns : AfterWait(c)
  \/ \E i \in InitCalls : InitRabbitMQ(i)

SpecInit == Init /\ [][NextInit]_vars

\* ------------------------------------------------- shutdownRabbitMQ
ShutdownFrame ==
  UNCHANGED <<initCall, databaseEntity, message, referenceNo, svcVars,
              runnerVars, logVars, storeVars, locks, cache, pc, items,
              product, totalPrice, err, wset, txItems, target, k, published,
              pub, ch, handlers, opened>>

\* lines 165-168 (and 174-176): with a channel, channel.close() is awaited
\* and the module's channel is cleared; the close of a channel whose
\* connection is gone rejects, and the catch ends the call
ShutdownChannel ==
  /\ shutdown = "idle"
  /\ IF channel = 0
     THEN /\ shutdown' = "connection"
          /\ channel' = channel
     ELSE IF channel \in alive
     THEN /\ shutdown' = "connection"
          /\ channel' = 0
     ELSE /\ shutdown' = "done"
          /\ channel' = channel
  /\ UNCHANGED <<connection, connecting, alive, rc>>
  /\ ShutdownFrame

\* lines 169-176 with lines 34-37 and reconnect lines 53-62: with a
\* connection, connection.close() is awaited; the closed connection emits
\* 'close', so its handler, if registered, starts a reconnect run exactly
\* as for a connection that was lost; then the module's connection is
\* cleared. The close of a connection that is gone rejects, and the catch
\* ends the call.
ShutdownConnection ==
  /\ shutdown = "connection"
  /\ shutdown' = "done"
  /\ IF connection = 0
     THEN UNCHANGED <<connection, channel, connecting, alive, rc>>
     ELSE IF connection \in alive
     THEN /\ alive' = alive \ {connection}
          /\ connection' = 0
          /\ IF connection \in handlers
             THEN /\ channel' = 0
                  /\ rc' = [rc EXCEPT ![connection] =
                              [pc |-> InitEnterPc, delay |-> InitialDelay,
                               conn |-> 0, fails |-> 0]]
                  /\ connecting' = TRUE
             ELSE UNCHANGED <<channel, rc, connecting>>
     ELSE UNCHANGED <<connection, channel, connecting, alive, rc>>
  /\ ShutdownFrame

ShutdownRabbitMQ == ShutdownChannel \/ ShutdownConnection

\* One shutdownRabbitMQ call next to the connection handling of the module.
NextShutdown == Publisher \/ ShutdownRabbitMQ

SpecShutdown == Init /\ [][NextShutdown]_vars

\* ------------------------------------------- OrderService.updateOrderStatus
\* The values of the enum OrderStatus, which are the values of the status
\* column.
OrderStatus == {"PENDING", "CONFIRMED", "FAILED", "CANCELLED", "COMPLETED"}

\* The status values the request validation lets through.
RequestStatuses == {"PENDING", "CONFIRMED", "SHIPPED", "CANCELLED"}

\* StatusFind that refuses to change the status of a CANCELLED order.
StatusFind_Guarded(u) ==
  /\ pc[u] = "idle"
  /\ \E o \in Creates, st \in RequestStatuses :
       /\ target' = [target EXCEPT ![u] = o]
       /\ newStatus' = [newStatus EXCEPT ![u] = st]
       /\ oldStatus' = [oldStatus EXCEPT ![u] =
                         IF orders[o] = NoOrder THEN @ ELSE orders[o].status]
       /\ pc' = [pc EXCEPT ![u] =
                  IF orders[o] = NoOrder THEN "null"
                  ELSE IF orders[o].status = "CANCELLED" THEN "thrown"
                  ELSE "save"]
  /\ UNCHANGED <<storeVars, locks, cache, items, product, totalPrice, err,
                 wset, txItems, k, published, pub, ch, mqVars, databaseEntity,
                 message, referenceNo, productId, storeReads, cacheWrites,
                 runnerVars, payloads>>

\* lines 218-224: the order is read outside any transaction, no order
\* returns null; else its status is set in memory
StatusFind(u) ==
  /\ pc[u] = "idle"
  /\ \E o \in Creates, st \in RequestStatuses :
       /\ target' = [target EXCEPT ![u] = o]
       /\ newStatus' = [newStatus EXCEPT ![u] = st]
       /\ oldStatus' = [oldStatus EXCEPT ![u] =
                         IF orders[o] = NoOrder THEN @ ELSE orders[o].status]
       /\ pc' = [pc EXCEPT ![u] = IF orders[o] = NoOrder THEN "null" ELSE "save"]
  /\ UNCHANGED <<storeVars, locks, cache, items, product, totalPrice, err,
                 wset, txItems, k, published, pub, ch, mqVars, databaseEntity,
                 message, referenceNo, productId, storeReads, cacheWrites,
                 runnerVars, payloads>>

\* StatusSave on a status column that takes any text.
StatusSave_TextColumn(u) ==
  /\ pc[u] = "save"
  /\ orders' = [orders EXCEPT ![target[u]].status = newStatus[u]]
  /\ pc' = [pc EXCEPT ![u] = "log"]
  /\ err' = err
  /\ UNCHANGED <<db, orderItems, eventLogs, locks, cache, items, product,
                 totalPrice, wset, txItems, target, k, published, pub, ch,
                 mqVars, databaseEntity, message, referenceNo, svcVars, runnerVars, logVars>>

\* line 225: the autocommitted save of the order with the new status; the
\* status column is an enum of OrderStatus (Order.ts line 36), so the store
\* rejects any other value and the catch of lines 240-243 rethrows
StatusSave(u) ==
  /\ pc[u] = "save"
  /\ IF newStatus[u] \in OrderStatus
     THEN /\ orders' = [orders EXCEPT ![target[u]].status = newStatus[u]]
          /\ pc' = [pc EXCEPT ![u] = "log"]
          /\ err' = err
     ELSE /\ orders' = orders
          /\ pc' = [pc EXCEPT ![u] = "thrown"]
          /\ err' = [err EXCEPT ![u] = "Internal"]
  /\ UNCHANGED <<db, orderItems, eventLogs, locks, cache, items, product,
                 totalPrice, wset, txItems, target, k, published, pub, ch,
                 mqVars, databaseEntity, message, referenceNo, svcVars, runnerVars, logVars>>

\* lines 228-239: the autocommitted save of the EventLog, whose eventType
\* is ORDER_CONFIRMED whatever the status
StatusLog(u) ==
  /\ pc[u] = "log"
  /\ eventLogs' = [eventLogs EXCEPT ![target[u]] = Append(@, "ORDER_CONFIRMED")]
  /\ payloads' = [payloads EXCEPT ![target[u]] =
                     Append(@, [oldStatus |-> oldStatus[u],
                                newStatus |-> newStatus[u]])]
  /\ pc' = [pc EXCEPT ![u] = "returned"]
  /\ UNCHANGED <<db, orders, orderItems, locks, cache, items, product,
                 totalPrice, err, wset, txItems, target, k, published, pub, ch,
                 mqVars, databaseEntity, message, referenceNo, svcVars, runnerVars, oldStatus>>

\* lines 240-243: a store operation of the call rejects and the error is
\* rethrown
StatusStoreError(u) ==
  /\ pc[u] \in {"save", "log"}
  /\ err' = [err EXCEPT ![u] = "Internal"]
  /\ pc' = [pc EXCEPT ![u] = "thrown"]
  /\ UNCHANGED <<storeVars, locks, cache, items, product, totalPrice,
                 wset, txItems, target, k, published, pub, ch, mqVars,
                 databaseEntity, message, referenceNo, svcVars, runnerVars, logVars>>

UpdateOrderStatus(u) ==
  \/ StatusFind(u) \/ StatusSave(u) \/ StatusLog(u) \/ StatusStoreError(u)

\* ------------------------------------------------------------ ProductService
\* What no ProductService call touches.
orderVars == <<orders, orderItems, eventLogs, locks, items, totalPrice, wset,
               txItems, target, k, published, pub, ch, message, referenceNo,
               newStatus, mqVars, runnerVars, logVars>>

\* GetCache that ignores what the cache holds and always goes to the store.
GetCache_AlwaysMiss(g) ==
  /\ pc[g] = "idle"
  /\ \E p \in ProductIds :
       /\ productId' = [productId EXCEPT ![g] = p]
       /\ product' = product
       /\ pc' = [pc EXCEPT ![g] = "find"]
  /\ UNCHANGED <<db, cache, err, databaseEntity, storeReads, cacheWrites,
                 orderVars>>

\* lines 346-352: GET product:{id}; a hit is parsed and returned
GetCache(g) ==
  /\ pc[g] = "idle"
  /\ \E p \in ProductIds :
       /\ productId' = [productId EXCEPT ![g] = p]
       /\ IF cache[p] # NoEntry
          THEN /\ product' = [product EXCEPT ![g] = Parse(cache[p])]
               /\ pc' = [pc EXCEPT ![g] = "returned"]
          ELSE /\ product' = product
               /\ pc' = [pc EXCEPT ![g] = "find"]
  /\ UNCHANGED <<db, cache, err, databaseEntity, storeReads, cacheWrites,
                 orderVars>>

\* GetFind that caches the negative result when the store has no row.
GetFind_CacheNull(g) ==
  /\ pc[g] = "find"
  /\ storeReads' = [storeReads EXCEPT ![g] = @ + 1]
  /\ LET row == Visible(g, productId[g])
     IN  IF row = NoRow
         THEN /\ product' = product
              /\ cache' = [cache EXCEPT ![productId[g]] = <<"null">>]
              /\ pc' = [pc EXCEPT ![g] = "null"]
         ELSE /\ product' = [product EXCEPT ![g] = row]
              /\ cache' = cache
              /\ pc' = [pc EXCEPT ![g] = "setEx"]
  /\ UNCHANGED <<db, err, databaseEntity, productId, cacheWrites,
                 orderVars>>

\* lines 355-360: on a miss the row is read from the store; no row returns
\* null
GetFind(g) ==
  /\ pc[g] = "find"
  /\ storeReads' = [storeReads EXCEPT ![g] = @ + 1]
  /\ LET row == Visible(g, productId[g])
     IN  IF row = NoRow
         THEN /\ product' = product
              /\ pc' = [pc EXCEPT ![g] = "null"]
         ELSE /\ product' = [product EXCEPT ![g] = row]
              /\ pc' = [pc EXCEPT ![g] = "setEx"]
  /\ UNCHANGED <<db, cache, err, databaseEntity, productId, cacheWrites,
                 orderVars>>

\* lines 363-370: SETEX product:{id} 3600 with the row read, which is
\* returned
GetSetEx(g) ==
  /\ pc[g] = "setEx"
  /\ cache' = [cache EXCEPT ![productId[g]] = Stringify(product[g])]
  /\ cacheWrites' = [cacheWrites EXCEPT ![g] = @ + 1]
  /\ pc' = [pc EXCEPT ![g] = "returned"]
  /\ UNCHANGED <<db, product, err, databaseEntity, productId, storeReads,
                 orderVars>>

GetProductById(g) == GetCache(g) \/ GetFind(g) \/ GetSetEx(g)

\* lines 438-443: the row is read outside any transaction, no row returns
\* null; Object.assign(product, data) with data = {price}
UpdateFind(u) ==
  /\ pc[u] = "idle"
  /\ \E p \in ProductIds, price \in Prices :
       /\ productId' = [productId EXCEPT ![u] = p]
       /\ LET row == Visible(u, p)
          IN  IF row = NoRow
              THEN /\ product' = product
                   /\ pc' = [pc EXCEPT ![u] = "null"]
              ELSE /\ product' = [product EXCEPT ![u] = [row EXCEPT !.price = price]]
                   /\ pc' = [pc EXCEPT ![u] = "save"]
  /\ UNCHANGED <<db, cache, err, databaseEntity, storeReads, cacheWrites,
                 orderVars>>

\* line 444, first half of save(product): the ORM loads the row of the id
UpdateLoad(u) ==
  /\ pc[u] = "save"
  /\ databaseEntity' = [databaseEntity EXCEPT ![u] = Visible(u, productId[u])]
  /\ pc' = [pc EXCEPT ![u] = "update"]
  /\ UNCHANGED <<db, cache, product, err, productId, storeReads, cacheWrites,
                 orderVars>>

\* line 444, second half of save(product): the autocommitted UPDATE of the
\* changed columns, which waits for the row's write lock; the INSERT of the
\* entity when no row was loaded, which fails on a row that is there again
UpdateSave(u) ==
  /\ pc[u] = "update"
  /\ LET p == productId[u]
     IN  IF ~HasStatement(u)
         THEN /\ UNCHANGED <<db, err>>
              /\ pc' = [pc EXCEPT ![u] = "cacheDel"]
         ELSE /\ ~RowLocked(u, p)
              /\ IF databaseEntity[u] = NoRow /\ Visible(u, p) # NoRow
                 THEN /\ db' = db
                      /\ err' = [err EXCEPT ![u] = "Internal"]
                      /\ pc' = [pc EXCEPT ![u] = "thrown"]
                 ELSE /\ db' = [db EXCEPT ![p] = SavedRow(u, p)]
                      /\ err' = err
                      /\ pc' = [pc EXCEPT ![u] = "cacheDel"]
  /\ databaseEntity' = [databaseEntity EXCEPT ![u] = NoRow]
  /\ UNCHANGED <<cache, product, productId, storeReads, cacheWrites, orderVars>>

\* lines 447-449: DEL product:{id}
UpdateInvalidate(u) ==
  /\ pc[u] = "cacheDel"
  /\ cache' = [cache EXCEPT ![productId[u]] = NoEntry]
  /\ pc' = [pc EXCEPT ![u] = "setEx"]
  /\ UNCHANGED <<db, product, err, databaseEntity, productId, storeReads,
                 cacheWrites, orderVars>>

\* UpdateSetEx that leaves the key deleted.
UpdateSetEx_DeleteOnly(u) ==
  /\ pc[u] = "setEx"
  /\ cache' = cache
  /\ pc' = [pc EXCEPT ![u] = "returned"]
  /\ UNCHANGED <<db, product, err, databaseEntity, productId, storeReads,
                 cacheWrites, orderVars>>

\* lines 452-458: SETEX product:{id} 3600 with the saved entity, which is
\* returned
UpdateSetEx(u) ==
  /\ pc[u] = "setEx"
  /\ cache' = [cache EXCEPT ![productId[u]] = Stringify(product[u])]
  /\ pc' = [pc EXCEPT ![u] = "returned"]
  /\ UNCHANGED <<db, product, err, databaseEntity, productId, storeReads,
                 cacheWrites, orderVars>>

UpdateProduct(u) ==
  \/ UpdateFind(u) \/ UpdateLoad(u) \/ UpdateSave(u)
  \/ UpdateInvalidate(u) \/ UpdateSetEx(u)

\* Some committed order item refers to product p (products.orderItems).
Referenced(p) ==
  \E o \in Creates : \E i \in 1 .. Len(orderItems[o]) :
    orderItems[o][i].productId = p

\* lines 470-474: the autocommitted DELETE by id, which waits for the row's
\* write lock; no row affected returns false, a row that order items refer
\* to cannot be deleted
DeleteRow(d) ==
  /\ pc[d] = "idle"
  /\ \E p \in ProductIds :
       /\ productId' = [productId EXCEPT ![d] = p]
       /\ IF Visible(d, p) = NoRow
          THEN /\ UNCHANGED <<db, err>>
               /\ pc' = [pc EXCEPT ![d] = "false"]
          ELSE /\ ~RowLocked(d, p)
               /\ IF Referenced(p)
                  THEN /\ db' = db
                       /\ err' = [err EXCEPT ![d] = "Internal"]
                       /\ pc' = [pc EXCEPT ![d] = "thrown"]
                  ELSE /\ db' = [db EXCEPT ![p] = NoRow]
                       /\ err' = err
                       /\ pc' = [pc EXCEPT ![d] = "cacheDel"]
  /\ UNCHANGED <<cache, product, databaseEntity, storeReads, cacheWrites,
                 orderVars>>

\* lines 477-481: DEL product:{id}, and true is returned
DeleteInvalidate(d) ==
  /\ pc[d] = "cacheDel"
  /\ cache' = [cache EXCEPT ![productId[d]] = NoEntry]
  /\ pc' = [pc EXCEPT ![d] = "returned"]
  /\ UNCHANGED <<db, product, err, databaseEntity, productId, storeReads,
                 cacheWrites, orderVars>>

DeleteProduct(d) == DeleteRow(d) \/ DeleteInvalidate(d)

\* The 3600 s expiry of a product:{id} key (line 334) elapses.
CacheExpire(p) ==
  /\ cache[p] # NoEntry
  /\ cache' = [cache EXCEPT ![p] = NoEntry]
  /\ UNCHANGED <<db, pc, product, err, databaseEntity, productId, storeReads,
                 cacheWrites, orderVars>>

\* The ProductService calls next to each other.
NextCache ==
  \/ \E g \in Gets : GetProductById(g)
  \/ \E u \in Updates : UpdateProduct(u)
  \/ \E d \in Deletes : DeleteProduct(d)
  \/ \E p \in Products : CacheExpire(p)

SpecCache == Init /\ [][NextCache]_vars

\* No other call is in progress while call t runs.
Alone(t) ==
  \A x \in Calls \ {t} : pc[x] \in {"idle", "returned", "null", "false", "thrown"}

\* The ProductService calls one after the other.
NextSeq ==
  \/ \E g \in Gets : Alone(g) /\ GetProductById(g)
  \/ \E u \in Updates : Alone(u) /\ UpdateProduct(u)
  \/ \E d \in Deletes : Alone(d) /\ DeleteProduct(d)
  \/ \E p \in Products : CacheExpire(p)

SpecSeq == Init /\ [][NextSeq]_vars

\* One createOrder call next to getProductById calls.
NextRead ==
  \/ CreateOrder(1)
  \/ \E g \in Gets : GetProductById(g)

SpecRead == Init /\ [][NextRead]_vars


\* One createOrder call and the cancelOrder calls.
NextCancel ==
  \/ CreateOrder(1)
  \/ \E c \in Cancels : CancelOrder(c)

SpecCancel == Init /\ [][NextCancel]_vars

\* One createOrder call next to one updateProduct call, and one cancelOrder
\* and the updateOrderStatus calls that come after it.
NextPrice ==
  \/ CreateOrder(1)
  \/ UpdateProduct(NumCreate + NumCancel + NumGet + 1)
  \/ CancelOrder(NumCreate + 1)
  \/ UpdateOrderStatus(NumCreate + NumCancel + NumGet + NumUpdate + NumDelete + 1)

SpecPrice == Init /\ [][NextPrice]_vars

\* One createOrder call, one cancelOrder call and two updateOrderStatus calls.
NextStatus ==
  \/ CreateOrder(1)
  \/ CancelOrder(NumCreate + 1)
  \/ \E u \in Statuses : UpdateOrderStatus(u)

SpecStatus == Init /\ [][NextStatus]_vars

\* ================================================================ properties
Terminal == {"returned", "thrown", "null"}

RECURSIVE SumQty(_, _)
\* The quantities of the items of `its` that are for product p, summed.
SumQty(its, p) ==
  IF its = << >> THEN 0
  ELSE (IF Head(its).productId = p THEN Head(its).quantity ELSE 0)
       + SumQty(Tail(its), p)

RECURSIVE Outstanding(_, _)
\* The units of product p in the committed, not cancelled orders 1 .. n.
Outstanding(n, p) ==
  IF n = 0 THEN 0
  ELSE (IF orders[n] # NoOrder /\ orders[n].status # "CANCELLED"
        THEN SumQty(orderItems[n], p) ELSE 0)
       + Outstanding(n - 1, p)

\* C1: no oversell: the quantities of the committed orders of a product (a
\* cancelled order gives its units back) never sum to more than its initial
\* stock.
C1_NoOversell ==
  \A p \in Products : Outstanding(NumCreate, p) <= InitStock

\* Requests a and b each ask once for the same product, each quantity fits
\* the stock alone and the two together do not; both have a valid user, the
\* store answers, and no other call is active.
Contend(a, b) ==
  /\ Len(items[a]) = 1 /\ Len(items[b]) = 1
  /\ items[a][1].productId \in Products
  /\ items[a][1].productId = items[b][1].productId
  /\ items[a][1].quantity <= InitStock /\ items[b][1].quantity <= InitStock
  /\ items[a][1].quantity + items[b][1].quantity > InitStock
  /\ pc[a] \in Terminal /\ pc[b] \in Terminal
  /\ err[a] \notin {"UserNotFound", "Internal"}
  /\ err[b] \notin {"UserNotFound", "Internal"}
  /\ \A t \in Txs \ {a, b} : pc[t] = "idle"

\* Request w got its order and request l failed for stock or lock.
WonOver(w, l) ==
  /\ pc[w] = "returned" /\ pc[l] = "thrown"
  /\ err[l] \in {"InsufficientStock", "LockConflict"}
  /\ LET p == items[w][1].productId
         q == items[w][1].quantity
     IN  db[p].stock = InitStock - q /\ db[p].reservedStock = q

\* C2: of two concurrent requests whose quantities together exceed the stock
\* exactly one succeeds, the committed row is (S - q, q) for the winner's q,
\* and the other fails with InsufficientStock or LockConflict.
C2_ExactlyOneWins ==
  \A a, b \in Creates :
    (a # b /\ Contend(a, b)) => (WonOver(a, b) \/ WonOver(b, a))

\* C3: conservation: in every committed state stock + reservedStock of a
\* product is what it was before any reservation or cancellation.
C3_Conservation ==
  \A p \in Products : db[p].stock + db[p].reservedStock = InitStock

\* C3 witness: a reservation is committed and another order is cancelled.
C3_Witness ==
  \E a, b \in Creates :
    /\ orders[a] # NoOrder /\ orders[a].status = "CANCELLED"
    /\ orders[b] # NoOrder /\ orders[b].status = "PENDING"
    /\ \E p \in Products : db[p].reservedStock > 0

\* A step of createOrder call r other than its commit.
UncommittedStep(r) ==
  /\ pc'[r] # pc[r]
  /\ ~(pc[r] = "commit" /\ pc'[r] \in {"assert", "returned"})

\* C4: atomicity of createOrder: a failed call has no Order, OrderItem or
\* EventLog row, and no step of a call but its commit changes a committed
\* row, so whatever a failing call did to its products is never committed.
C4_Atomicity ==
  /\ [](\A r \in Creates :
         err[r] # "" => /\ orders[r] = NoOrder
                        /\ orderItems[r] = << >>
                        /\ eventLogs[r] = << >>
                        /\ pc[r] \in {"release", "rollback", "thrown"})
  /\ [][\A r \in Creates :
         UncommittedStep(r) => UNCHANGED <<db, orders, orderItems, eventLogs>>]_vars

\* C4 witness: a call failed on its second item after its transaction had
\* decremented the stock for the first, and the committed row is untouched.
C4_Witness ==
  \E r \in Creates :
    /\ pc[r] = "thrown" /\ err[r] = "InsufficientStock"
    /\ Len(items[r]) = 2
    /\ db[items[r][1].productId].stock = InitStock

\* Call r is between its successful SET NX of a product's lock key and its
\* own DEL of that key.
InSection(r, p) ==
  /\ pc[r] \in {"find", "save", "update", "cacheDel", "release"}
  /\ CurItem(r).productId = p

\* C5: mutual exclusion: at most one createOrder call is inside the
\* lock-protected section of a product.
C5_MutualExclusion ==
  \A p \in ProductIds : \A a, b \in Creates :
    (InSection(a, p) /\ InSection(b, p)) => a = b

\* C6: a refused lock acquisition fails the call at once with LockConflict:
\* the call never returns to the item loop, and neither the refused step nor
\* a later step of the call changes a lock key.
C6_FailFast ==
  /\ [](\A r \in Creates :
         err[r] = "LockConflict" => pc[r] \in {"rollback", "thrown"})
  /\ [][\A r \in Creates :
         (err'[r] = "LockConflict" /\ pc'[r] # pc[r]) => locks' = locks]_vars

\* C6 witness: a call failed with LockConflict and the holder still holds.
C6_Witness ==
  \E r \in Creates :
    /\ pc[r] = "thrown" /\ err[r] = "LockConflict"
    /\ locks[CurItem(r).productId] \notin {0, r}

\* C7: a reservation is prepared and written only when the stock read covers
\* the quantity (the decremented stock is never negative); a call that read
\* less fails with InsufficientStock, writes nothing for the item and no
\* step of it changes a committed row.
C7_InsufficientStock ==
  /\ [](\A r \in Creates :
         /\ pc[r] \in {"save", "update"} => product[r].stock >= 0
         /\ \A p \in Products : wset[r][p] # NoRow => wset[r][p].stock >= 0
         /\ err[r] = "InsufficientStock" =>
              /\ pc[r] \in {"release", "rollback", "thrown"}
              /\ pc[r] = "release" => product[r].stock < CurItem(r).quantity)
  /\ [][\A r \in Creates :
         (err'[r] = "InsufficientStock" /\ pc'[r] # pc[r]) =>
           /\ db' = db
           /\ wset'[r] \in {wset[r], NoWrites}]_vars

\* C7 witness: a call failed with InsufficientStock.
C7_Witness ==
  \E r \in Creates : pc[r] = "thrown" /\ err[r] = "InsufficientStock"

\* C8: an order.created event is handed to the broker only for a committed
\* order, never for a failed call, and at most once per order.
C8_PublishAfterCommit ==
  \A r \in Creates :
    /\ published[r] <= 1
    /\ published[r] >= 1 => (orders[r] # NoOrder /\ err[r] = "")
    /\ pc[r] \in {"rollback", "thrown"} => published[r] = 0

\* C8 witness: a committed order's event was published and the call returned.
C8_Witness ==
  \E r \in Creates : published[r] = 1 /\ pc[r] = "returned"

\* C9: a failed publish never fails the order: the call returns the saved
\* order, and the Order, its items, its EventLog and the reservation of the
\* (only) call stay committed.
C9_PublishFailureSwallowed ==
  \A r \in Creates :
    pub[r] \in {"nochannel", "error"} =>
      /\ pc[r] = "returned" /\ err[r] = ""
      /\ orders[r] # NoOrder /\ orders[r].status = "PENDING"
      /\ Len(orderItems[r]) = Len(items[r])
      /\ eventLogs[r] = <<"ORDER_CREATED">>
      /\ \A p \in Products :
           /\ db[p].stock = InitStock - SumQty(orderItems[r], p)
           /\ db[p].reservedStock = SumQty(orderItems[r], p)

\* C9 witness: assertExchange rejected on a closed channel after the commit.
C9_Witness ==
  \E r \in Creates : pub[r] = "error" /\ pc[r] = "returned"

\* The publisher has a connection and a channel again and no reconnect run
\* is in progress.
Reconnected ==
  /\ channel # 0 /\ connection # 0
  /\ \A c \in Conns : rc[c].pc \in {"idle", "done"}

\* C10 as claimed: a publish made while the publisher was reconnecting is
\* not lost: once the connection is re-established the message is sent.
C10_NotLost ==
  \A r \in Creates :
    (pub[r] = "nochannel" /\ Reconnected) => published[r] >= 1

\* C10 as amended: a publish made while the module has no channel throws in
\* getChannel, createOrder swallows it and returns the committed order, and
\* the message is never sent, also after the reconnect.
C10_Lost ==
  \A r \in Creates :
    pub[r] = "nochannel" =>
      /\ published[r] = 0
      /\ pc[r] = "returned"
      /\ orders[r] # NoOrder

\* C10 witness: the publish was dropped and the publisher has reconnected.
C10_Witness ==
  \E r \in Creates : pub[r] = "nochannel" /\ Reconnected

RECURSIVE Pow2(_)
Pow2(n) == IF n = 0 THEN 1 ELSE 2 * Pow2(n - 1)

\* C11: a reconnect run sleeps min(1000 * 2^(k-1), 10000) ms after its k-th
\* failed attempt, its delay never exceeds 10 s and never decreases, and the
\* run retries after every sleep: it ends only when the module has a
\* connection and a channel.
C11_Backoff ==
  /\ [](\A c \in Conns :
         /\ rc[c].pc # "idle" => rc[c].delay <= MaxDelay
         /\ rc[c].pc = "sleep" =>
              /\ rc[c].fails >= 1
              /\ rc[c].delay = Min(InitialDelay * Pow2(rc[c].fails - 1), MaxDelay))
  /\ [][\A c \in Conns :
         /\ rc[c].pc # "idle" => rc'[c].delay >= rc[c].delay
         /\ (rc[c].pc = "sleep" /\ rc'[c].pc # "sleep") =>
              IF connection # 0 /\ channel # 0
              THEN rc'[c].pc = "done"
              ELSE rc'[c].pc \in {"connect", "wait250"}
         /\ (rc[c].pc # "done" /\ rc'[c].pc = "done") =>
              (connection' # 0 /\ channel' # 0)]_vars

\* C11 witness: a run sleeps after its sixth failed attempt in a row, the
\* second sleep at the cap.
C11_Witness ==
  \E c \in Conns :
    rc[c].pc = "sleep" /\ rc[c].fails = 6 /\ rc[c].delay = MaxDelay

\* No updateProduct or deleteProduct call is in progress.
WritersQuiet ==
  \A w \in Updates \cup Deletes :
    pc[w] \in {"idle", "returned", "null", "false", "thrown"}

\* An updateProduct or deleteProduct call for product p has completed.
WriterDone(p) ==
  \E w \in Updates \cup Deletes : pc[w] = "returned" /\ productId[w] = p

\* C12: cache correctness: a getProductById that starts after an
\* updateProduct or deleteProduct of the product completed, with no other
\* write in progress, and is served from the cache returns the row the
\* store holds, not an earlier snapshot and not a deleted product.
C12_CacheCorrect ==
  [][\A g \in Gets :
       (pc[g] = "idle" /\ pc'[g] = "returned" /\ WritersQuiet
          /\ WriterDone(productId'[g]))
       => product'[g] = db[productId'[g]]]_vars

\* Order r is committed with a reservation of product p.
Reserved(r, p) == orders[r] # NoOrder /\ SumQty(orderItems[r], p) > 0

\* C13: a getProductById that starts after the commit of an order which
\* reserved the product (no other transaction has an uncommitted write)
\* and is served from the cache returns the committed row, not the row
\* from before the reservation.
C13_ReadAfterReserve ==
  [][\A g \in Gets :
       (pc[g] = "idle" /\ pc'[g] = "returned"
          /\ (\E r \in Creates : Reserved(r, productId'[g]))
          /\ \A t \in Txs : wset[t] = NoWrites)
       => product'[g] = db[productId'[g]]]_vars

\* C14: cache-aside read. A getProductById that finds no cache entry reads
\* the store once and, for an existing product, writes the cache once with
\* the row it returns; one that finds an entry returns the parsed entry with
\* no store read and no cache write, which is the snapshot an immediately
\* preceding call returned and cached.
C14_CacheAside ==
  /\ [](\A g \in Gets :
         /\ storeReads[g] <= 1 /\ cacheWrites[g] <= 1
         /\ pc[g] = "returned" => cacheWrites[g] = storeReads[g]
         /\ pc[g] = "null" => (storeReads[g] = 1 /\ cacheWrites[g] = 0))
  /\ [][\A g \in Gets :
         LET p == productId'[g]
         IN  /\ (pc[g] = "idle" /\ pc'[g] # "idle") =>
                  IF cache[p] = NoEntry
                  THEN pc'[g] = "find" /\ storeReads' = storeReads
                  ELSE /\ pc'[g] = "returned"
                       /\ product'[g] = Parse(cache[p])
                       /\ Stringify(product'[g]) = cache[p]
                       /\ storeReads'[g] = 0 /\ cacheWrites'[g] = 0
                       /\ cache' = cache /\ db' = db
                       /\ \A h \in Gets \ {g} :
                            (pc[h] = "returned" /\ productId[h] = p
                               /\ cache[p] = Stringify(product[h]))
                            => product'[g] = product[h]
             /\ (pc[g] = "find" /\ pc'[g] = "setEx") =>
                  /\ product'[g] = db[p] /\ storeReads'[g] = 1
                  /\ cache' = cache
             /\ (pc[g] = "setEx" /\ pc'[g] = "returned") =>
                  /\ cache'[p] = Stringify(product'[g])
                  /\ product'[g] = product[g]
                  /\ cacheWrites'[g] = 1 /\ storeReads'[g] = 1]_vars

\* C14 witness: a call on a cold cache read the store once and wrote the
\* cache once, and the next call was a hit that returned the same snapshot.
C14_Witness ==
  \E g, h \in Gets :
    /\ pc[g] = "returned" /\ storeReads[g] = 1 /\ cacheWrites[g] = 1
    /\ pc[h] = "returned" /\ storeReads[h] = 0 /\ cacheWrites[h] = 0
    /\ productId[g] \in Products /\ productId[h] = productId[g]
    /\ product[h] = product[g]
    /\ \A w \in Updates \cup Deletes : pc[w] = "idle"

\* The products rows as seeded.
Seeded == [p \in Products |->
             [stock |-> InitStock, reservedStock |-> 0, price |-> Price(p)]]

\* C15: round trip: when a createOrder and then a cancelOrder of its order
\* have run with no other call, every product has its stock and
\* reservedStock of before the createOrder, the order is still there with
\* its items and status CANCELLED, and its EventLog rows are ORDER_CREATED
\* and ORDER_CANCELLED.
C15_RoundTrip ==
  \A c \in Cancels :
    (pc[c] = "returned" /\ \A d \in Cancels \ {c} : pc[d] = "idle") =>
      LET o == target[c]
      IN  /\ db = Seeded
          /\ orders[o] # NoOrder /\ orders[o].status = "CANCELLED"
          /\ Len(orderItems[o]) = Len(items[o])
          /\ eventLogs[o] = <<"ORDER_CREATED", "ORDER_CANCELLED">>

\* C15 witness: an order of two items was created and cancelled.
C15_Witness ==
  \E c \in Cancels :
    /\ pc[c] = "returned" /\ \A d \in Cancels \ {c} : pc[d] = "idle"
    /\ Len(orderItems[target[c]]) = 2
    /\ pc[target[c]] = "returned"

\* C16: cancelOrder of an order whose status is CANCELLED fails with
\* AlreadyCancelled, and neither the step that finds it nor any later step
\* of the call changes a product, an order, an EventLog, a cache entry or a
\* lock; the call has written nothing in its transaction.
C16_AlreadyCancelled ==
  /\ [](\A c \in Cancels :
         err[c] = "AlreadyCancelled" =>
           /\ pc[c] \in {"rollback", "thrown"}
           /\ wset[c] = NoWrites
           /\ orders[target[c]].status = "CANCELLED")
  /\ [][\A c \in Cancels :
         /\ (pc[c] = "idle" /\ pc'[c] # "idle"
                /\ orders[target'[c]].status = "CANCELLED")
            => (err'[c] = "AlreadyCancelled" /\ pc'[c] = "rollback")
         /\ (err'[c] = "AlreadyCancelled" /\ pc'[c] # pc[c])
            => UNCHANGED <<db, orders, orderItems, eventLogs, cache, locks>>]_vars

\* C16 witness: a second cancelOrder of a cancelled order has thrown.
C16_Witness ==
  \E c \in Cancels :
    /\ pc[c] = "thrown" /\ err[c] = "AlreadyCancelled"
    /\ eventLogs[target[c]] = <<"ORDER_CREATED", "ORDER_CANCELLED">>

\* C17: no two committed orders have the same referenceNo.
C17_UniqueReferenceNo ==
  \A a, b \in Creates :
    (a # b /\ orders[a] # NoOrder /\ orders[b] # NoOrder)
    => referenceNo[a] # referenceNo[b]

\* C17 witness: a call drew the referenceNo of a committed order and its
\* INSERT failed on the unique index, and both calls are over.
C17_Witness ==
  \E a, b \in Creates :
    /\ orders[a] # NoOrder /\ referenceNo[a] = a
    /\ pc[b] = "thrown" /\ message[b] = DuplicateKeyMessage

RECURSIVE SumTotal(_)
\* The totalPrice of the order items `its`, summed.
SumTotal(its) ==
  IF its = << >> THEN 0 ELSE Head(its).totalPrice + SumTotal(Tail(its))

\* C18: the totalPrice of every committed order is the sum of the
\* totalPrice of its items, each of which is quantity x unitPrice, whatever
\* updateOrderStatus, cancelOrder or updateProduct did since.
C18_TotalPrice ==
  \A o \in Creates :
    orders[o] # NoOrder =>
      /\ orders[o].totalPrice = SumTotal(orderItems[o])
      /\ \A i \in 1 .. Len(orderItems[o]) :
           orderItems[o][i].totalPrice =
             orderItems[o][i].quantity * orderItems[o][i].unitPrice

\* C19: a createOrder call that threw is answered 400 for a missing user or
\* product and for insufficient stock, 409 for a refused lock, and 500 for
\* every other failure.
C19_ErrorTaxonomy ==
  \A r \in Creates :
    pc[r] = "thrown" =>
      ErrorStatus(message[r]) =
        (CASE err[r] \in {"UserNotFound", "ProductNotFound", "InsufficientStock"}
                -> 400
           [] err[r] = "LockConflict" -> 409
           [] OTHER -> 500)

\* the stock_lock keys a createOrder call holds
HeldLocks(r) == {p \in ProductIds : locks[p] = r}

\* C20: a createOrder call holds at most one product lock at any instant,
\* and a lock it holds is the lock of the item it is currently reserving.
C20_OneLockAtATime ==
  \A r \in Creates :
    /\ Cardinality(HeldLocks(r)) <= 1
    /\ \A p \in HeldLocks(r) : InSection(r, p)

\* a call holds the lock of its second item, whose product differs from the
\* product of its first item, and holds no other lock
C20_Witness ==
  \E r \in Creates :
    /\ Len(items[r]) = 2
    /\ items[r][1].productId # items[r][2].productId
    /\ HeldLocks(r) = {items[r][2].productId}

\* C21: every lock of a createOrder call is released before its transaction
\* commits: after an item step and at the commit the call holds no lock and
\* has no committed order, and it is the commit step, taken with no lock
\* held, that makes the decremented rows of the call committed.
C21_ReleaseBeforeCommit ==
  /\ [](\A r \in Creates :
         pc[r] \in {"loop", "commit"} =>
           /\ HeldLocks(r) = {}
           /\ orders[r] = NoOrder)
  /\ [][\A r \in Creates :
         (pc[r] = "commit" /\ pc'[r] \in {"assert", "returned"}) =>
           /\ HeldLocks(r) = {}
           /\ \A p \in Products : wset[r][p] # NoRow => db'[p] = wset[r][p]]_vars

\* a call is at its commit with a decremented stock that is not committed,
\* and the lock of that product is free
C21_Witness ==
  \E r \in Creates : \E p \in Products :
    /\ pc[r] = "commit"
    /\ wset[r][p] # NoRow
    /\ wset[r][p].stock < db[p].stock
    /\ locks[p] = 0

\* C22: no lock leak: a createOrder call that has left its item loop by a
\* throw, or has returned or thrown, owns no stock_lock key, whichever way
\* the item step ended.
C22_NoLockLeak ==
  \A r \in Creates :
    pc[r] \in {"rollback", "thrown", "assert", "drain", "returned"} =>
      HeldLocks(r) = {}

\* one call threw on a store error raised while it held the lock of its
\* first item, another threw for insufficient stock, and no key is left
C22_Witness ==
  \E a, b \in Creates :
    /\ pc[a] = "thrown" /\ err[a] = "Internal"
    /\ Len(items[a]) = 1 /\ items[a][1].productId = MissingId
    /\ pc[b] = "thrown" /\ err[b] = "InsufficientStock"
    /\ \A p \in ProductIds : locks[p] = 0

\* C23: cancelOrder does not use the stock_lock keys: no step of a
\* cancelOrder call changes a lock key and no cancelOrder call fails with
\* LockConflict (so a held lock never stops it from writing the product).
C23_CancelIgnoresLocks ==
  /\ [](\A c \in Cancels : err[c] # "LockConflict")
  /\ [][\A c \in Cancels : pc'[c] # pc[c] => locks' = locks]_vars

\* a cancelOrder call has written the restored row of a product in its
\* transaction while a createOrder call holds that product's lock
C23_Witness ==
  \E c \in Cancels : \E r \in Creates : \E p \in Products :
    /\ pc[c] = "cacheDel"
    /\ wset[c][p] # NoRow
    /\ locks[p] = r /\ InSection(r, p)

\* C24: the committed stock of a product is never negative, whatever the
\* interleaving of createOrder and cancelOrder calls.
C24_StockNonNegative ==
  \A p \in Products : db[p].stock >= 0

\* two committed, not cancelled orders together ask for more than the
\* initial stock of a product, and its committed stock is 0
C24_Witness ==
  \E p \in Products :
    /\ db[p].stock = 0
    /\ Outstanding(NumCreate, p) > InitStock
    /\ \A r \in Creates : orders[r] # NoOrder /\ orders[r].status = "PENDING"

\* C25: the committed reservedStock of a product is never negative.
C25_ReservedNonNegative ==
  \A p \in Products : db[p].reservedStock >= 0

\* C26: reservation ledger: the committed reservedStock of a product is the
\* sum of the quantities that the committed, not cancelled orders hold of it.
C26_ReservationLedger ==
  \A p \in Products : db[p].reservedStock = Outstanding(NumCreate, p)

\* C27: the quantities of an order are given back to stock at most once:
\* with a single order, whose reservation took its units from the initial
\* stock, the committed stock never exceeds the initial stock.
C27_RestoreOnce ==
  \A p \in Products : db[p].stock <= InitStock

\* The commit step of cancelOrder call c.
CancelCommitStep(c) == pc[c] = "commit" /\ pc'[c] = "returned"

\* C28: cancellation is atomic: the commit step of a cancelOrder call makes
\* its restored product rows, the status CANCELLED and one ORDER_CANCELLED
\* EventLog row committed together; no other step of the call changes a
\* committed row, and a call that failed never commits.
C28_CancelAtomic ==
  /\ [](\A c \in Cancels :
         err[c] # "" => pc[c] \in {"rollback", "thrown"})
  /\ [][\A c \in Cancels :
         /\ (pc'[c] # pc[c] /\ ~CancelCommitStep(c)) =>
              UNCHANGED <<db, orders, orderItems, eventLogs>>
         /\ CancelCommitStep(c) =>
              /\ \A p \in Products : wset[c][p] # NoRow => db'[p] = wset[c][p]
              /\ orders'[target[c]].status = "CANCELLED"
              /\ eventLogs'[target[c]] =
                   Append(eventLogs[target[c]], "ORDER_CANCELLED")]_vars

\* a cancelOrder call threw after it had restored every item in its
\* transaction: the product row, the order and its EventLog are as before
C28_Witness ==
  \E c \in Cancels : \E p \in Products :
    /\ pc[c] = "thrown" /\ err[c] = "Internal"
    /\ k[c] > Len(orderItems[target[c]])
    /\ SumQty(orderItems[target[c]], p) > 0
    /\ db[p].reservedStock = SumQty(orderItems[target[c]], p)
    /\ orders[target[c]].status = "PENDING"
    /\ eventLogs[target[c]] = <<"ORDER_CREATED">>

\* The finally of a transactional call has run queryRunner.release(): the
\* call has returned (an order or null) or thrown.
IsReleased(t) == pc[t] \in {"returned", "null", "thrown"}

\* C29: when the query runner of a cancelOrder call is released, its
\* transaction has been committed or rolled back.
C29_TransactionEnded ==
  \A c \in Cancels : IsReleased(c) => ~isTransactionActive[c]

\* C30: updateOrderStatus of an existing order accepts every pair of current
\* and requested status: the read keeps the current status as oldStatus and
\* goes on to the save, the save sets the requested status, and the log step
\* appends exactly one EventLog row whose payload holds oldStatus and
\* newStatus; no step of the call changes a Product row; for an id with no
\* order the call returns null and changes no row.
C30_UpdateOrderStatus ==
  [][\A u \in Statuses :
       pc'[u] # pc[u] =>
         /\ db' = db
         /\ pc[u] = "idle" =>
              /\ UNCHANGED <<orders, orderItems, eventLogs, payloads>>
              /\ IF orders[target'[u]] = NoOrder
                 THEN pc'[u] = "null"
                 ELSE /\ pc'[u] = "save"
                      /\ oldStatus'[u] = orders[target'[u]].status
         /\ (pc[u] = "save" /\ pc'[u] = "log") =>
              /\ orders'[target[u]].status = newStatus[u]
              /\ UNCHANGED <<eventLogs, payloads>>
         /\ (pc[u] = "log" /\ pc'[u] = "returned") =>
              /\ orders' = orders
              /\ Len(eventLogs'[target[u]]) = Len(eventLogs[target[u]]) + 1
              /\ payloads'[target[u]] =
                   Append(payloads[target[u]],
                          [oldStatus |-> oldStatus[u], newStatus |-> newStatus[u]])
              /\ \A o \in Creates \ {target[u]} :
                   eventLogs'[o] = eventLogs[o] /\ payloads'[o] = payloads[o]]_vars

\* a CANCELLED order was set back to PENDING by one call and then to CONFIRMED
\* by another, both returned, and each left its EventLog row
C30_Witness ==
  \E u, w \in Statuses : \E o \in Creates :
    /\ pc[u] = "returned" /\ pc[w] = "returned"
    /\ target[u] = o /\ target[w] = o
    /\ oldStatus[u] = "CANCELLED" /\ newStatus[u] = "PENDING"
    /\ oldStatus[w] = "PENDING" /\ newStatus[w] = "CONFIRMED"
    /\ orders[o].status = "CONFIRMED"
    /\ Len(eventLogs[o]) = 4
    /\ payloads[o][4] = [oldStatus |-> "PENDING", newStatus |-> "CONFIRMED"]

\* The EventLog rows of order o that record a change to status st.
StatusRows(o, st) ==
  {i \in 1 .. Len(payloads[o]) :
     /\ "newStatus" \in DOMAIN payloads[o][i]
     /\ payloads[o][i].newStatus = st}

\* C31: the status set by updateOrderStatus and its EventLog row are
\* persisted together or not at all: once no updateOrderStatus call is
\* between its two saves, an order whose status is one that only
\* updateOrderStatus sets has an EventLog row recording that status.
C31_StatusWithEventLog ==
  \A o \in Creates :
    (/\ orders[o] # NoOrder
     /\ orders[o].status = "CONFIRMED"
     /\ \A u \in Statuses : pc[u] # "log")
      => StatusRows(o, orders[o].status) # {}

\* C32: every persisted Order.status is a value of OrderStatus, also after
\* status updates whose requested value passed the request validation.
C32_StatusInEnum ==
  \A o \in Creates : orders[o] # NoOrder => orders[o].status \in OrderStatus

\* an updateOrderStatus call asked for SHIPPED, which the validation accepts
\* and OrderStatus does not hold: it threw and the order keeps its status
C32_Witness ==
  \E u \in Statuses :
    /\ newStatus[u] = "SHIPPED" /\ newStatus[u] \in RequestStatuses
    /\ pc[u] = "thrown"
    /\ orders[target[u]] # NoOrder
    /\ orders[target[u]].status = oldStatus[u]

\* C33: the unitPrice of an OrderItem is the product price read when the
\* item's stock was reserved, and its totalPrice is quantity x unitPrice.
\* The local totalPrice of a call that reserved one item is quantity x the
\* price read at the reservation (line 76), so for its one OrderItem
\* quantity x unitPrice must be that totalPrice.
C33_PriceSnapshot ==
  \A r \in Creates :
    (Len(items[r]) = 1 /\ Len(txItems[r]) = 1) =>
      /\ txItems[r][1].quantity * txItems[r][1].unitPrice = totalPrice[r]
      /\ txItems[r][1].totalPrice =
           txItems[r][1].quantity * txItems[r][1].unitPrice

\* C34: no negative caching: a getProductById that finds the product in
\* neither the cache nor the store returns null after one store read and
\* writes nothing to the cache, so the key of an id that has no row is never
\* set and every read of that id goes to the store.
C34_NoNegativeCaching ==
  /\ [](/\ cache[MissingId] = NoEntry
        /\ \A g \in Gets :
             pc[g] = "null" => (cacheWrites[g] = 0 /\ storeReads[g] = 1))
  /\ [][\A g \in Gets :
         (pc[g] = "find" /\ pc'[g] = "null") =>
           /\ cache' = cache
           /\ db' = db]_vars

\* two calls for the id that has no row both returned null, each after a
\* store read, and the key is absent
C34_Witness ==
  \E g, h \in Gets :
    /\ g # h
    /\ productId[g] = MissingId /\ productId[h] = MissingId
    /\ pc[g] = "null" /\ pc[h] = "null"
    /\ storeReads[g] = 1 /\ storeReads[h] = 1
    /\ cache[MissingId] = NoEntry

\* C35: with the calls one after the other, the step that completes an
\* updateProduct leaves the key of the product holding the row the store
\* holds, which is the updated entity, and the step that completes a
\* deleteProduct leaves the row gone and the key absent; between calls an
\* entry is always the row of the store, so a read served from it returns
\* the current values and a read of a deleted product goes to the store.
C35_WriteThenRead ==
  /\ []((\A t \in Calls : Alone(t)) =>
          \A p \in Products :
            cache[p] # NoEntry =>
              (db[p] # NoRow /\ cache[p] = Stringify(db[p])))
  /\ [][/\ \A u \in Updates :
            (pc[u] = "setEx" /\ pc'[u] = "returned") =>
              /\ db'[productId[u]] = product[u]
              /\ cache'[productId[u]] = Stringify(db'[productId[u]])
        /\ \A d \in Deletes :
            (pc[d] = "cacheDel" /\ pc'[d] = "returned") =>
              /\ db'[productId[d]] = NoRow
              /\ cache'[productId[d]] = NoEntry]_vars

\* an updateProduct changed the price and returned, and a getProductById
\* after it returned the new price from the cache with no store read
C35_Witness ==
  \E u \in Updates : \E g \in Gets : \E p \in Products :
    /\ pc[u] = "returned" /\ productId[u] = p
    /\ product[u].price # Price(p)
    /\ pc[g] = "returned" /\ productId[g] = p
    /\ storeReads[g] = 0
    /\ product[g] = db[p] /\ product[g].price = product[u].price

\* C36: when ch.publish returned false the call stays in publishToExchange
\* until a 'drain' event of that channel, which can only come while its
\* connection is open; when ch.publish returned true the call returns at
\* once.
C36_WaitForDrain ==
  /\ [](\A r \in Creates :
         /\ pub[r] = "full" => pc[r] = "drain"
         /\ pub[r] \in {"sent", "drained"} => pc[r] = "returned")
  /\ [][\A r \in Creates :
         /\ (pub[r] = "full" /\ pub'[r] # "full") =>
              (ch[r] \in alive /\ pub'[r] = "drained")
         /\ pub'[r] = "drained" => pub[r] \in {"full", "drained"}
         /\ (pub'[r] = "sent" /\ pub[r] # "sent") => pc[r] = "assert"]_vars

\* a call whose publish met backpressure returned after the drain event
C36_Witness ==
  \E r \in Creates : pub[r] = "drained" /\ pc[r] = "returned"

\* C37: a createOrder call whose transaction has committed eventually
\* returns the order to its caller (and with that releases its query
\* runner), whatever the broker does.
C37_CommittedReturns ==
  \A r \in Creates : (orders[r] # NoOrder) ~> (pc[r] = "returned")


\* ------------------------------------------------- initRabbitMQ (C38)
\* C38: at any instant at most one broker connection opened by the module
\* is alive
C38_OneConnection == Cardinality(alive) <= 1


\* ------------------------------------------------ shutdownRabbitMQ (C39)
\* C39: once shutdownRabbitMQ has completed, no new connection is opened
\* and the module's connection and channel stay null
C39_StaysDisconnected ==
  [][shutdown = "done" =>
       /\ opened' = opened
       /\ connection' = 0
       /\ channel' = 0]_vars

====
